---- MODULE Spec2Model ----
(***************************************************************************)
(* A model of the Sphinx packet core of loopix-messaging                   *)
(* (src/sphinx/sphinx.go): packet construction by PackForwardMessage and   *)
(* the per-hop unwrapping by ProcessSphinxPacket.                          *)
(*                                                                         *)
(* Byte strings are sequences of numbers 0..255.  The wire encoding is a   *)
(* tag-length-value encoding with the proto3 rules the code relies on      *)
(* (empty scalar fields are omitted, a set message field is always         *)
(* written).  The cryptographic primitives of sphinx/crypto.go are not     *)
(* part of the sources at hand; they are modelled from the specification   *)
(* on a scaled-down domain: field elements are 2 bytes instead of 32, the  *)
(* group is the additive group of integers modulo the prime 2^15 - 19      *)
(* (standing for Curve25519, whose field prime is 2^255 - 19), whose       *)
(* decoding ignores the most significant bit of the last byte as X25519    *)
(* does.  KDF is a permutation of the key space, AES-CTR is the XOR with a *)
(* key- and position-dependent stream, and the MAC is collision-free for   *)
(* one key on single-byte changes and for one text on different keys.      *)
(***************************************************************************)
EXTENDS Integers, Sequences, FiniteSets, TLC

(***************************************************************************)
(* Bounds of the model.                                                    *)
(***************************************************************************)
\* the largest number of mixes between the two providers of a path
MaxMixes == 1
\* delays are drawn from 0..MaxDelay (each stands for a float64 of seconds)
MaxDelay == 1

(***************************************************************************)
(* Bytes.                                                                  *)
(***************************************************************************)
\* bit k of a byte
Bit(a, k) == (a \div (2 ^ k)) % 2

\* cipher.Stream.XORKeyStream on one byte: the bitwise exclusive or
Xor8(a, b) ==
    ((Bit(a, 0) + Bit(b, 0)) % 2)
    + 2 * ((Bit(a, 1) + Bit(b, 1)) % 2)
    + 4 * ((Bit(a, 2) + Bit(b, 2)) % 2)
    + 8 * ((Bit(a, 3) + Bit(b, 3)) % 2)
    + 16 * ((Bit(a, 4) + Bit(b, 4)) % 2)
    + 32 * ((Bit(a, 5) + Bit(b, 5)) % 2)
    + 64 * ((Bit(a, 6) + Bit(b, 6)) % 2)
    + 128 * ((Bit(a, 7) + Bit(b, 7)) % 2)

\* the little-endian value of a two-byte string
Val16(b) == b[1] + 256 * b[2]

\* the two-byte little-endian string of a value below 2^16
Bytes16(v) == << v % 256, (v \div 256) % 256 >>

(***************************************************************************)
(* Group and scalar primitives (sphinx/crypto.go, curve25519).             *)
(***************************************************************************)
\* the prime 2^15 - 19 (for Curve25519's 2^255 - 19)
GroupOrder == 32749

\* the size of a field element in bytes (32 in the code)
PublicKeySize == 2

\* copy(fe.bytes[:], b): a fixed array of PublicKeySize bytes, zero padded
BytesToFieldElement(b) ==
    SubSeq([i \in 1..PublicKeySize |-> IF i <= Len(b) THEN b[i] ELSE 0],
           1, PublicKeySize)

\* BytesToPublicKey(b).ToFieldElement()
BytesToPublicKey(b) == BytesToFieldElement(b)

\* the group element a field element decodes to: the most significant bit
\* of the last byte is ignored and the value is reduced modulo the prime
PointOf(fe) == (fe[1] + 256 * (fe[2] % 128)) % GroupOrder

\* the scalar a field element is used as: never zero (clamping)
ScalarOf(fe) == 1 + (Val16(fe) % (GroupOrder - 1))

\* curve25519.ScalarMult(dst, in, base), returning dst
ScalarMult(in, base) == Bytes16((ScalarOf(in) * PointOf(base)) % GroupOrder)

\* the base point of the curve (u = 9)
BasePoint == << 9, 0 >>

\* expo(base, exp): ((base * e1) * e2) ... * en, one scalar at a time
RECURSIVE expo(_, _)
expo(base, exps) ==
    IF Len(exps) = 0 THEN base
    ELSE expo(ScalarMult(exps[1], base), Tail(exps))

\* expoGroupBase(exp) == expo(G, exp)
expoGroupBase(exps) == expo(BasePoint, exps)

(***************************************************************************)
(* KDF and symmetric primitives (sphinx/crypto.go).                        *)
(***************************************************************************)
\* KDF: a deterministic hash of a byte string to a key
KDF(b) == Bytes16((Val16(b) * 7919 + 4001) % GroupOrder)

\* the key stream byte of AES in counter mode at position i
CtrStream(key, iv, i) ==
    (((Val16(key) + 1) * (i + 1) + Val16(iv) * (2 * i + 1)) \div 7) % 256

\* the fixed counter block of AesCtr
AesCtrIv == << 48, 48 >>

\* AesCtr(key, plaintext): XOR with the key stream; length preserving
AesCtr(key, data) ==
    SubSeq([i \in 1..Len(data) |-> Xor8(data[i], CtrStream(key, AesCtrIv, i))],
           1, Len(data))

\* the sum of i * (data[i] + 1) over the positions lo..hi
RECURSIVE WeightedSum(_, _, _)
WeightedSum(data, lo, hi) ==
    IF lo > hi THEN 0
    ELSE IF lo = hi THEN lo * (data[lo] + 1)
    ELSE WeightedSum(data, lo, (lo + hi) \div 2)
         + WeightedSum(data, ((lo + hi) \div 2) + 1, hi)

\* computeMac(key, data): the HMAC of data under key
computeMac(key, data) ==
    Bytes16((Val16(key) + WeightedSum(data, 1, Len(data))) % GroupOrder)

(***************************************************************************)
(* Wire encoding (proto.Marshal / proto.Unmarshal on the messages of       *)
(* sphinx.proto).                                                          *)
(***************************************************************************)
\* a base-128 varint of up to two bytes
Varint(n) == IF n < 128 THEN << n >> ELSE << 128 + (n % 128), n \div 128 >>

\* a length-delimited field (wire type 2)
LenDelim(num, val) == << 8 * num + 2 >> \o Varint(Len(val)) \o val

\* a bytes or string field: proto3 omits it when it is empty
BytesField(num, val) == IF Len(val) = 0 THEN << >> ELSE LenDelim(num, val)

\* math.Float64bits, little endian, of the delays of the model
Float64bits(d) == << d, 0, 0, 0, 0, 0, 0, 0 >>

\* math.Float64frombits; -1 stands for every float64 outside the model
Float64frombits(b) == IF \A i \in 2..8 : b[i] = 0 THEN b[1] ELSE -1

\* a double field (wire type 1): proto3 omits it when it is zero
DoubleField(num, d) == IF d = 0 THEN << >> ELSE << 8 * num + 1 >> \o Float64bits(d)

\* a message field: written whenever the pointer is set, even when the
\* message is empty.  A pointer is a sequence of no or one element.
MsgField(num, ptr, enc) == IF Len(ptr) = 0 THEN << >> ELSE LenDelim(num, enc)

MarshalHop(h) ==
    BytesField(1, h.Id) \o BytesField(2, h.Address) \o BytesField(3, h.PubKey)

MarshalCommands(c) == DoubleField(1, c.Delay) \o BytesField(2, c.Flag)

MarshalRoutingInfo(r) ==
    MsgField(1, r.NextHop,
             IF Len(r.NextHop) = 0 THEN << >> ELSE MarshalHop(r.NextHop[1]))
    \o MsgField(2, r.RoutingCommands,
                IF Len(r.RoutingCommands) = 0 THEN << >>
                ELSE MarshalCommands(r.RoutingCommands[1]))
    \o BytesField(3, r.NextHopMetaData)
    \o BytesField(4, r.Mac)

MarshalHeader(h) ==
    BytesField(1, h.Alpha) \o BytesField(2, h.Beta) \o BytesField(3, h.Mac)

MarshalSphinxPacket(p) ==
    MsgField(1, p.Hdr, IF Len(p.Hdr) = 0 THEN << >> ELSE MarshalHeader(p.Hdr[1]))
    \o BytesField(2, p.Pld)

\* the fields of an encoded message from position i on: [ok, fields]
RECURSIVE ParseFrom(_, _)
ParseFrom(b, i) ==
    IF i > Len(b) THEN [ok |-> TRUE, fields |-> << >>]
    ELSE
      LET num == b[i] \div 8
          wt == b[i] % 8
          bad == [ok |-> FALSE, fields |-> << >>]
          \* wire type 2: where the length ends and what it is
          two == i + 1 <= Len(b) /\ b[i + 1] >= 128
          lenOk == i + 1 <= Len(b)
                   /\ (two => (i + 2 <= Len(b) /\ b[i + 2] < 128))
          len == IF two THEN (b[i + 1] - 128) + 128 * b[i + 2] ELSE b[i + 1]
          start == IF two THEN i + 3 ELSE i + 2
          \* the width of a fixed field
          fixed == IF wt = 1 THEN 8 ELSE 4
      IN IF num = 0 \/ b[i] >= 128 THEN bad
         ELSE IF wt = 2 THEN
           IF ~lenOk THEN bad
           ELSE IF start + len - 1 > Len(b) THEN bad
           ELSE LET rest == ParseFrom(b, start + len)
                IN IF ~rest.ok THEN bad
                   ELSE [ok |-> TRUE,
                         fields |-> << [num |-> num, wt |-> wt,
                                        val |-> SubSeq(b, start, start + len - 1)] >>
                                    \o rest.fields]
         ELSE IF wt = 1 \/ wt = 5 THEN
           IF i + fixed > Len(b) THEN bad
           ELSE LET rest == ParseFrom(b, i + 1 + fixed)
                IN IF ~rest.ok THEN bad
                   ELSE [ok |-> TRUE,
                         fields |-> << [num |-> num, wt |-> wt,
                                        val |-> SubSeq(b, i + 1, i + fixed)] >>
                                    \o rest.fields]
         ELSE bad

HasField(fs, num) == \E i \in 1..Len(fs) : fs[i].num = num

\* the value of the last field with this number
FieldVal(fs, num) ==
    fs[CHOOSE i \in 1..Len(fs) :
          fs[i].num = num /\ \A j \in (i + 1)..Len(fs) : fs[j].num # num].val

BytesOf(fs, num) == IF HasField(fs, num) THEN FieldVal(fs, num) ELSE << >>

\* every field of a known number has the wire type of the schema
WireTypesOk(fs, schema) ==
    \A i \in 1..Len(fs) :
        fs[i].num \in DOMAIN schema => fs[i].wt = schema[fs[i].num]

ZeroHop == [Id |-> << >>, Address |-> << >>, PubKey |-> << >>]

ZeroCommands == [Delay |-> 0, Flag |-> << >>]

ZeroHeader == [Alpha |-> << >>, Beta |-> << >>, Mac |-> << >>]

\* the Hop of parsed fields
HopOfFields(p) ==
    IF ~p.ok \/ ~WireTypesOk(p.fields, << 2, 2, 2 >>)
    THEN [ok |-> FALSE, msg |-> ZeroHop]
    ELSE [ok |-> TRUE,
          msg |-> [Id |-> BytesOf(p.fields, 1),
                   Address |-> BytesOf(p.fields, 2),
                   PubKey |-> BytesOf(p.fields, 3)]]

UnmarshalHop(b) == HopOfFields(ParseFrom(b, 1))

\* the Commands of parsed fields
CommandsOfFields(p) ==
    IF ~p.ok \/ ~WireTypesOk(p.fields, << 1, 2 >>)
    THEN [ok |-> FALSE, msg |-> ZeroCommands]
    ELSE [ok |-> TRUE,
          msg |-> [Delay |-> IF HasField(p.fields, 1)
                             THEN Float64frombits(FieldVal(p.fields, 1))
                             ELSE 0,
                   Flag |-> BytesOf(p.fields, 2)]]

UnmarshalCommands(b) == CommandsOfFields(ParseFrom(b, 1))

ZeroRoutingInfo ==
    [NextHop |-> << >>, RoutingCommands |-> << >>,
     NextHopMetaData |-> << >>, Mac |-> << >>]

\* the RoutingInfo of parsed fields and of its two parsed messages
RoutingInfoOfParts(fs, hop, cmd) ==
    IF ~hop.ok \/ ~cmd.ok THEN [ok |-> FALSE, msg |-> ZeroRoutingInfo]
    ELSE [ok |-> TRUE,
          msg |-> [NextHop |-> IF HasField(fs, 1) THEN << hop.msg >> ELSE << >>,
                   RoutingCommands |-> IF HasField(fs, 2)
                                       THEN << cmd.msg >> ELSE << >>,
                   NextHopMetaData |-> BytesOf(fs, 3),
                   Mac |-> BytesOf(fs, 4)]]

RoutingInfoOfFields(p) ==
    IF ~p.ok \/ ~WireTypesOk(p.fields, << 2, 2, 2, 2 >>)
    THEN [ok |-> FALSE, msg |-> ZeroRoutingInfo]
    ELSE RoutingInfoOfParts(p.fields, UnmarshalHop(BytesOf(p.fields, 1)),
                            UnmarshalCommands(BytesOf(p.fields, 2)))

UnmarshalRoutingInfo(b) == RoutingInfoOfFields(ParseFrom(b, 1))

\* the Header of parsed fields
HeaderOfFields(p) ==
    IF ~p.ok \/ ~WireTypesOk(p.fields, << 2, 2, 2 >>)
    THEN [ok |-> FALSE, msg |-> ZeroHeader]
    ELSE [ok |-> TRUE,
          msg |-> [Alpha |-> BytesOf(p.fields, 1),
                   Beta |-> BytesOf(p.fields, 2),
                   Mac |-> BytesOf(p.fields, 3)]]

UnmarshalHeader(b) == HeaderOfFields(ParseFrom(b, 1))

ZeroSphinxPacket == [Hdr |-> << >>, Pld |-> << >>]

\* the SphinxPacket of parsed fields and of its parsed header
SphinxPacketOfParts(fs, hdr) ==
    IF ~hdr.ok THEN [ok |-> FALSE, msg |-> ZeroSphinxPacket]
    ELSE [ok |-> TRUE,
          msg |-> [Hdr |-> IF HasField(fs, 1) THEN << hdr.msg >> ELSE << >>,
                   Pld |-> BytesOf(fs, 2)]]

SphinxPacketOfFields(p) ==
    IF ~p.ok \/ ~WireTypesOk(p.fields, << 2, 2 >>)
    THEN [ok |-> FALSE, msg |-> ZeroSphinxPacket]
    ELSE SphinxPacketOfParts(p.fields, UnmarshalHeader(BytesOf(p.fields, 1)))

UnmarshalSphinxPacket(b) == SphinxPacketOfFields(ParseFrom(b, 1))

(***************************************************************************)
(* Errors and panics.  A Go run-time panic is not an error value: it is    *)
(* modelled as an outcome of its own.                                      *)
(***************************************************************************)
NoErr == "nil"

ErrMacMismatch == "packet processing error: MACs are not matching"

ErrUnmarshal == "proto: cannot parse invalid wire-format data"

ErrInvalidPubKey == "invalid public key provided for node"

ErrSecretCount ==
    " the number of shared secrets should be the same as the number of traversed nodes"

PanicIndex == "panic: runtime error: index out of range"

PanicNilDeref == "panic: runtime error: invalid memory address or nil pointer dereference"

IsPanic(e) == e \in {PanicIndex, PanicNilDeref}

\* flags.RelayFlag.Bytes() and flags.LastHopFlag.Bytes()
RelayFlag == << 241 >>

LastHopFlag == << 240 >>

\* ":" in Host + ":" + Port
Colon == << 58 >>

(***************************************************************************)
(* src/sphinx/sphinx.go                                                    *)
(***************************************************************************)
\* the counter block "initialvector000" of computeBlindingFactor
BlindingIv == << 105, 110 >>

\* computeSharedSecretHash(key, iv): AES-CTR of a block of '0' characters
computeSharedSecretHash(key, iv) ==
    SubSeq([i \in 1..PublicKeySize |-> Xor8(48, CtrStream(key, iv, i))],
           1, PublicKeySize)

computeBlindingFactor(key) ==
    BytesToFieldElement(computeSharedSecretHash(key, BlindingIv))

\* the calls of getSharedSecrets a sender made, the last two of them: each
\* with its node list, its scalar x and its result
VARIABLE runs

\* the loop of getSharedSecrets from node i on
RECURSIVE SharedSecretsFrom(_, _, _, _)
SharedSecretsFrom(nodes, i, blindFactors, tuples) ==
    IF i > Len(nodes) THEN [err |-> NoErr, tuples |-> tuples]
    ELSE
      LET n == nodes[i]
          alpha == expoGroupBase(blindFactors)
          s == expo(BytesToPublicKey(n.PubKey), blindFactors)
          aesS == KDF(s)
          blinder == computeBlindingFactor(aesS)
      IN IF Len(n.PubKey) # PublicKeySize
         THEN [err |-> ErrInvalidPubKey, tuples |-> << >>]
         ELSE SharedSecretsFrom(nodes, i + 1, Append(blindFactors, blinder),
                  Append(tuples, [Alpha |-> alpha, Secret |-> s,
                                  Blinder |-> blinder, SecretHash |-> aesS]))

\* a faulty getSharedSecrets: the blinding factors of the call before are
\* still in the list this call starts from
getSharedSecrets_KeepsBlindFactors(nodes, initialVal) ==
    SharedSecretsFrom(nodes, 1,
        << initialVal >> \o
          (IF Len(runs) = 0 THEN << >>
           ELSE [i \in 1..Len(runs[Len(runs)].result.tuples) |->
                   runs[Len(runs)].result.tuples[i].Blinder]),
        << >>)

\* a faulty getSharedSecrets: the tuple of the last node is not returned
getSharedSecrets_DropsLast(nodes, initialVal) ==
    [err |-> SharedSecretsFrom(nodes, 1, << initialVal >>, << >>).err,
     tuples |-> SubSeq(SharedSecretsFrom(nodes, 1, << initialVal >>, << >>).tuples,
                       1, Len(nodes) - 1)]

getSharedSecrets(nodes, initialVal) ==
    SharedSecretsFrom(nodes, 1, << initialVal >>, << >>)

\* Address: Host + ":" + Port
HostPort(c) == c.Host \o Colon \o c.Port

\* the loop of encapsulateHeader at index i (1-based: i = len(nodes)-1 .. 1);
\* lastRouting is routingCommands[len(routingCommands)-1]
RECURSIVE EncapsulateFrom(_, _, _, _, _, _, _)
EncapsulateFrom(headerInitials, nodes, commands, i, lastRouting, encRouting, mac) ==
    IF i < 1
    THEN [err |-> NoErr,
          header |-> [Alpha |-> headerInitials[1].Alpha,
                      Beta |-> encRouting, Mac |-> mac]]
    ELSE
      LET nextNode == nodes[i + 1]
          routing == [NextHop |-> << [Id |-> nextNode.Id,
                                      Address |-> HostPort(nextNode),
                                      PubKey |-> nodes[i + 1].PubKey] >>,
                      RoutingCommands |-> << commands[i] >>,
                      NextHopMetaData |-> lastRouting,
                      Mac |-> mac]
          encKey == KDF(headerInitials[i].SecretHash)
          routingBytes == MarshalRoutingInfo(routing)
          newEncRouting == AesCtr(encKey, routingBytes)
          kdfResL == KDF(headerInitials[i].SecretHash)
          newMac == computeMac(kdfResL, newEncRouting)
      IN EncapsulateFrom(headerInitials, nodes, commands, i - 1,
                         newEncRouting, newEncRouting, newMac)

encapsulateHeader(headerInitials, nodes, commands, destination) ==
    LET finalHop == [NextHop |-> << [Id |-> destination.Id,
                                     Address |-> HostPort(destination),
                                     PubKey |-> << >>] >>,
                     RoutingCommands |-> << commands[Len(commands)] >>,
                     NextHopMetaData |-> << >>,
                     Mac |-> << >>]
        finalHopBytes == MarshalRoutingInfo(finalHop)
        kdfRes == KDF(headerInitials[Len(headerInitials)].SecretHash)
        encFinalHop == AesCtr(kdfRes, finalHopBytes)
        mac == computeMac(kdfRes, encFinalHop)
    IN \* var encRouting []byte starts nil
       EncapsulateFrom(headerInitials, nodes, commands, Len(nodes) - 1,
                       encFinalHop, << >>, mac)

\* The library calls of encapsulateHeader return an error next to their
\* result.  A fault names the call that returns one: its step ("Marshal",
\* "KDF", "AesCtr", "KDF2" for the second KDF of a loop pass, "computeMac")
\* and where it is made (0 for the final hop, else the loop index from 1).
NoFault == [step |-> "none", at |-> 0]

ErrFault == "library call failed"

Fails(fault, step, at) == fault.step = step /\ fault.at = at

\* the loop of encapsulateHeader with the fault; line 192 returns the empty
\* header and a nil error when the second KDF fails
RECURSIVE EncapsulateFaultyFrom(_, _, _, _, _, _, _, _)
EncapsulateFaultyFrom(headerInitials, nodes, commands, i, lastRouting,
                      encRouting, mac, fault) ==
    IF i < 1
    THEN [err |-> NoErr,
          header |-> [Alpha |-> headerInitials[1].Alpha,
                      Beta |-> encRouting, Mac |-> mac]]
    ELSE
      LET nextNode == nodes[i + 1]
          routing == [NextHop |-> << [Id |-> nextNode.Id,
                                      Address |-> HostPort(nextNode),
                                      PubKey |-> nodes[i + 1].PubKey] >>,
                      RoutingCommands |-> << commands[i] >>,
                      NextHopMetaData |-> lastRouting,
                      Mac |-> mac]
          encKey == KDF(headerInitials[i].SecretHash)
          routingBytes == MarshalRoutingInfo(routing)
          newEncRouting == AesCtr(encKey, routingBytes)
          kdfResL == KDF(headerInitials[i].SecretHash)
          newMac == computeMac(kdfResL, newEncRouting)
      IN IF Fails(fault, "KDF", i) \/ Fails(fault, "Marshal", i)
            \/ Fails(fault, "AesCtr", i)
         THEN [err |-> ErrFault, header |-> ZeroHeader]
         ELSE IF Fails(fault, "KDF2", i)
         THEN [err |-> NoErr, header |-> ZeroHeader]
         ELSE IF Fails(fault, "computeMac", i)
         THEN [err |-> ErrFault, header |-> ZeroHeader]
         ELSE EncapsulateFaultyFrom(headerInitials, nodes, commands, i - 1,
                                    newEncRouting, newEncRouting, newMac, fault)

\* encapsulateHeader when the library call named by fault fails
encapsulateHeaderWith(headerInitials, nodes, commands, destination, fault) ==
    LET finalHop == [NextHop |-> << [Id |-> destination.Id,
                                     Address |-> HostPort(destination),
                                     PubKey |-> << >>] >>,
                     RoutingCommands |-> << commands[Len(commands)] >>,
                     NextHopMetaData |-> << >>,
                     Mac |-> << >>]
        finalHopBytes == MarshalRoutingInfo(finalHop)
        kdfRes == KDF(headerInitials[Len(headerInitials)].SecretHash)
        encFinalHop == AesCtr(kdfRes, finalHopBytes)
        mac == computeMac(kdfRes, encFinalHop)
    IN IF fault.at = 0 /\ fault.step \in { "Marshal", "KDF", "AesCtr", "computeMac" }
       THEN [err |-> ErrFault, header |-> ZeroHeader]
       ELSE EncapsulateFaultyFrom(headerInitials, nodes, commands, Len(nodes) - 1,
                                  encFinalHop, << >>, mac, fault)

\* a faulty CommandOf: the last node is told to relay like every other
CommandOf_AllRelay(delays, i, n) ==
    [Delay |-> delays[i], Flag |-> RelayFlag]

\* the command of node i of n
CommandOf(delays, i, n) ==
    IF i = n THEN [Delay |-> delays[i], Flag |-> LastHopFlag]
    ELSE [Delay |-> delays[i], Flag |-> RelayFlag]

\* createHeader, with x the scalar drawn at its start
createHeader(nodes, delays, dest, x) ==
    LET gss == getSharedSecrets(nodes, x)
        failed(e) == [err |-> e, headerInitials |-> << >>, header |-> ZeroHeader]
    IN IF gss.err # NoErr THEN failed(gss.err)
       ELSE IF Len(gss.tuples) # Len(nodes) THEN failed(ErrSecretCount)
       ELSE IF Len(delays) < Len(nodes) THEN failed(PanicIndex)
       ELSE LET commands == [i \in 1..Len(nodes) |-> CommandOf(delays, i, Len(nodes))]
                eh == encapsulateHeader(gss.tuples, nodes, commands, dest)
            IN IF eh.err # NoErr THEN failed(eh.err)
               ELSE [err |-> NoErr, headerInitials |-> gss.tuples,
                     header |-> eh.header]

\* a faulty encapsulateContent: the payload layers are added under KDF(s),
\* the key the blinder is derived from
RECURSIVE ContentFrom_SecretHashKey(_, _, _)
ContentFrom_SecretHashKey(headerInitials, i, enc) ==
    IF i < 1 THEN enc
    ELSE ContentFrom_SecretHashKey(headerInitials, i - 1,
                                   AesCtr(headerInitials[i].SecretHash, enc))

\* the loop of encapsulateContent at index i (from the last node down)
RECURSIVE ContentFrom(_, _, _)
ContentFrom(headerInitials, i, enc) ==
    IF i < 1 THEN enc
    ELSE LET sharedKey == KDF(headerInitials[i].SecretHash)
         IN ContentFrom(headerInitials, i - 1, AesCtr(sharedKey, enc))

encapsulateContent_SecretHashKey(headerInitials, message) ==
    ContentFrom_SecretHashKey(headerInitials, Len(headerInitials), message)

encapsulateContent(headerInitials, message) ==
    ContentFrom(headerInitials, Len(headerInitials), message)

\* createHeader and PackForwardMessage for a valid node list with one delay
\* per node, when the library call of encapsulateHeader named by fault fails
PackNodesWith(nodes, dest, delays, message, x, fault) ==
    LET gss == getSharedSecrets(nodes, x)
        commands == [i \in 1..Len(nodes) |-> CommandOf(delays, i, Len(nodes))]
        eh == encapsulateHeaderWith(gss.tuples, nodes, commands, dest, fault)
    IN IF eh.err # NoErr THEN [err |-> eh.err, packet |-> ZeroSphinxPacket]
       ELSE [err |-> NoErr,
             packet |-> [Hdr |-> << eh.header >>,
                         Pld |-> encapsulateContent(gss.tuples, message)]]

\* a faulty node list: the egress provider is placed before the mixes
NodesOf_EgressFirst(path) ==
    << path.IngressProvider >> \o << path.EgressProvider >> \o path.Mixes

\* the node list of PackForwardMessage
NodesOf(path) ==
    << path.IngressProvider >> \o path.Mixes \o << path.EgressProvider >>

\* what PackForwardMessage does once the node list is built
PackNodes(nodes, dest, delays, message, x) ==
    LET ch == createHeader(nodes, delays, dest, x)
    IN IF ch.err # NoErr THEN [err |-> ch.err, packet |-> ZeroSphinxPacket]
       ELSE [err |-> NoErr,
             packet |-> [Hdr |-> << ch.header >>,
                         Pld |-> encapsulateContent(ch.headerInitials, message)]]

PackForwardMessage(path, delays, message, x) ==
    PackNodes(NodesOf(path), path.Recipient, delays, message, x)

readBeta(beta) ==
    IF Len(beta.NextHop) = 0 \/ Len(beta.RoutingCommands) = 0
    THEN [panic |-> TRUE, nextHop |-> ZeroHop, commands |-> ZeroCommands,
          nextBeta |-> << >>, nextMac |-> << >>]
    ELSE [panic |-> FALSE, nextHop |-> beta.NextHop[1],
          commands |-> beta.RoutingCommands[1],
          nextBeta |-> beta.NextHopMetaData, nextMac |-> beta.Mac]

\* what a failed ProcessSphinxHeader returns
HeaderFailed(e) ==
    [err |-> e, hop |-> ZeroHop, commands |-> ZeroCommands, header |-> ZeroHeader,
     decrypted |-> { }]

\* the end of ProcessSphinxHeader, once beta is decrypted: the unmarshalled
\* beta is read
UnwrappedHeader(routingInfo, newAlpha) ==
    LET rb == readBeta(routingInfo.msg)
    IN IF ~routingInfo.ok
       THEN [HeaderFailed(ErrUnmarshal) EXCEPT !.decrypted = { "beta" }]
       ELSE IF rb.panic
       THEN [HeaderFailed(PanicNilDeref) EXCEPT !.decrypted = { "beta" }]
       ELSE [err |-> NoErr, hop |-> rb.nextHop, commands |-> rb.commands,
             header |-> [Alpha |-> newAlpha, Beta |-> rb.nextBeta,
                         Mac |-> rb.nextMac],
             decrypted |-> { "beta" }]

\* a faulty ProcessSphinxHeader: the result of the MAC comparison is inverted
ProcessSphinxHeader_InvertedMacCheck(packet, privKey) ==
    LET alpha == BytesToFieldElement(packet.Alpha)
        beta == packet.Beta
        mac == packet.Mac
        sharedSecret == ScalarMult(privKey, alpha)
        aesS == KDF(sharedSecret)
        encKey == KDF(aesS)
        recomputedMac == computeMac(encKey, beta)
        blinder == computeBlindingFactor(aesS)
        newAlpha == ScalarMult(blinder, alpha)
        decBeta == AesCtr(encKey, beta)
    IN IF recomputedMac = mac THEN HeaderFailed(ErrMacMismatch)
       ELSE UnwrappedHeader(UnmarshalRoutingInfo(decBeta), newAlpha)

\* a faulty ProcessSphinxHeader: beta is decrypted before the MAC is compared
ProcessSphinxHeader_DecryptFirst(packet, privKey) ==
    LET alpha == BytesToFieldElement(packet.Alpha)
        beta == packet.Beta
        mac == packet.Mac
        sharedSecret == ScalarMult(privKey, alpha)
        aesS == KDF(sharedSecret)
        encKey == KDF(aesS)
        decBeta == AesCtr(encKey, beta)
        recomputedMac == computeMac(encKey, beta)
        blinder == computeBlindingFactor(aesS)
        newAlpha == ScalarMult(blinder, alpha)
    IN IF recomputedMac # mac
       THEN [HeaderFailed(ErrMacMismatch) EXCEPT !.decrypted = { "beta" }]
       ELSE UnwrappedHeader(UnmarshalRoutingInfo(decBeta), newAlpha)

\* a faulty ProcessSphinxHeader: the MAC is never compared
ProcessSphinxHeader_NoMacCheck(packet, privKey) ==
    LET alpha == BytesToFieldElement(packet.Alpha)
        beta == packet.Beta
        sharedSecret == ScalarMult(privKey, alpha)
        aesS == KDF(sharedSecret)
        encKey == KDF(aesS)
        blinder == computeBlindingFactor(aesS)
        newAlpha == ScalarMult(blinder, alpha)
        decBeta == AesCtr(encKey, beta)
    IN UnwrappedHeader(UnmarshalRoutingInfo(decBeta), newAlpha)

\* a faulty ProcessSphinxHeader: the incoming alpha is passed on unblinded
ProcessSphinxHeader_KeepsAlpha(packet, privKey) ==
    LET alpha == BytesToFieldElement(packet.Alpha)
        beta == packet.Beta
        mac == packet.Mac
        sharedSecret == ScalarMult(privKey, alpha)
        aesS == KDF(sharedSecret)
        encKey == KDF(aesS)
        recomputedMac == computeMac(encKey, beta)
        decBeta == AesCtr(encKey, beta)
    IN IF recomputedMac # mac THEN HeaderFailed(ErrMacMismatch)
       ELSE UnwrappedHeader(UnmarshalRoutingInfo(decBeta), alpha)

\* ProcessSphinxHeader: the MAC is compared before anything else is derived
ProcessSphinxHeader(packet, privKey) ==
    LET alpha == BytesToFieldElement(packet.Alpha)
        beta == packet.Beta
        mac == packet.Mac
        sharedSecret == ScalarMult(privKey, alpha)
        aesS == KDF(sharedSecret)
        encKey == KDF(aesS)
        recomputedMac == computeMac(encKey, beta)
        blinder == computeBlindingFactor(aesS)
        newAlpha == ScalarMult(blinder, alpha)
        decBeta == AesCtr(encKey, beta)
    IN IF recomputedMac # mac THEN HeaderFailed(ErrMacMismatch)
       ELSE UnwrappedHeader(UnmarshalRoutingInfo(decBeta), newAlpha)

\* a faulty ProcessSphinxPayload: the key is derived with one KDF, not two
ProcessSphinxPayload_SingleKdf(alpha, payload, privKey) ==
    LET sharedSecret == ScalarMult(privKey, BytesToFieldElement(alpha))
        decKey == KDF(sharedSecret)
    IN AesCtr(decKey, payload)

\* ProcessSphinxPayload: one layer of the payload is removed
ProcessSphinxPayload(alpha, payload, privKey) ==
    LET sharedSecret == ScalarMult(privKey, BytesToFieldElement(alpha))
        aesS == KDF(sharedSecret)
        decKey == KDF(aesS)
    IN AesCtr(decKey, payload)

\* what a failed ProcessSphinxPacket returns
PacketFailed(e) ==
    [err |-> e, hop |-> ZeroHop, commands |-> ZeroCommands, packet |-> << >>,
     decrypted |-> { }]

\* a faulty end of ProcessSphinxPacket: the new packet carries no payload
ProcessedPacket_NoPayload(ph, newPayload) ==
    IF ph.err # NoErr
    THEN [PacketFailed(ph.err) EXCEPT !.decrypted = ph.decrypted]
    ELSE [err |-> NoErr, hop |-> ph.hop, commands |-> ph.commands,
          packet |-> MarshalSphinxPacket([Hdr |-> << ph.header >>,
                                          Pld |-> << >>]),
          decrypted |-> ph.decrypted \cup { "payload" }]

\* a faulty end of ProcessSphinxPacket: a packet that is left with no payload
\* is rejected
ProcessedPacket_NeedsPayload(ph, newPayload) ==
    IF ph.err # NoErr
    THEN [PacketFailed(ph.err) EXCEPT !.decrypted = ph.decrypted]
    ELSE IF newPayload = << >>
    THEN [PacketFailed(ErrUnmarshal) EXCEPT !.decrypted = ph.decrypted]
    ELSE [err |-> NoErr, hop |-> ph.hop, commands |-> ph.commands,
          packet |-> MarshalSphinxPacket([Hdr |-> << ph.header >>,
                                          Pld |-> newPayload]),
          decrypted |-> ph.decrypted \cup { "payload" }]

\* the end of ProcessSphinxPacket: the new packet is marshalled
ProcessedPacket(ph, newPayload) ==
    IF ph.err # NoErr
    THEN [PacketFailed(ph.err) EXCEPT !.decrypted = ph.decrypted]
    ELSE [err |-> NoErr, hop |-> ph.hop, commands |-> ph.commands,
          packet |-> MarshalSphinxPacket([Hdr |-> << ph.header >>,
                                          Pld |-> newPayload]),
          decrypted |-> ph.decrypted \cup { "payload" }]

\* ProcessSphinxPacket after proto.Unmarshal returned un
ProcessUnmarshalled(un, privKey) ==
    IF ~un.ok THEN PacketFailed(ErrUnmarshal)
    ELSE IF Len(un.msg.Hdr) = 0 THEN PacketFailed(PanicNilDeref)
    ELSE ProcessedPacket(ProcessSphinxHeader(un.msg.Hdr[1], privKey),
                         ProcessSphinxPayload(un.msg.Hdr[1].Alpha, un.msg.Pld,
                                              privKey))

ProcessSphinxPacket(packetBytes, privKey) ==
    ProcessUnmarshalled(UnmarshalSphinxPacket(packetBytes), privKey)

(***************************************************************************)
(* The network of the model: honest nodes with known private keys, one     *)
(* recipient, and the inputs a sender draws from.                          *)
(***************************************************************************)
\* the private key of node i
PrivKey(i) == << 11 + 37 * i, 3 + i >>

\* the private key of the node a MixConfig names ("N<i>")
PrivKeyOfNode(node) == PrivKey(node.Id[2] - 48)

\* GenerateKeyPair: the public key of a private key
PubKeyOf(priv) == ScalarMult(priv, BasePoint)

\* config.NewMixConfig("N<i>", "h<i>", "9<i>", pub)
MixConfig(i) ==
    [Id |-> << 78, 48 + i >>, Host |-> << 104, 48 + i >>,
     Port |-> << 57, 48 + i >>, PubKey |-> PubKeyOf(PrivKey(i))]

\* config.ClientConfig of the recipient "Rc" at "hc:99"
Recipient ==
    [Id |-> << 82, 99 >>, Host |-> << 104, 99 >>, Port |-> << 57, 57 >>,
     PubKey |-> PubKeyOf(<< 201, 5 >>)]

\* config.E2EPath with m mixes
E2EPath(m) ==
    [IngressProvider |-> MixConfig(0),
     Mixes |-> [j \in 1..m |-> MixConfig(j)],
     EgressProvider |-> MixConfig(m + 1),
     Recipient |-> Recipient]

\* the values the ephemeral scalar x is drawn from
XValues == { << 5, 0 >>, << 200, 77 >> }

\* the messages: "" and "hello"
Messages == { << >>, << 104, 101, 108, 108, 111 >> }

\* the delays: zero, which proto3 leaves out of the encoding, and others
DelayValues == 0..MaxDelay

DelaySeqs(len) == [1..len -> DelayValues]

\* the masks a byte in flight is changed by: one low bit, the top bit, all bits
Masks == { 1, 128, 255 }

\* A packet for node N0 alone made by a sender of its own making: the header
\* carries the alpha of scalar x, the bytes plain encrypted under N0's key as
\* beta, and the MAC of that beta, so N0 finds the MAC valid.
ForgedWith(alpha, secretHash, plain, message) ==
    LET key == KDF(secretHash)
        beta == AesCtr(key, plain)
    IN [Hdr |-> << [Alpha |-> alpha, Beta |-> beta,
                    Mac |-> computeMac(key, beta)] >>,
        Pld |-> AesCtr(key, message)]

ForgedPacket(x, plain, message) ==
    LET t == getSharedSecrets(<< MixConfig(0) >>, x).tuples[1]
    IN ForgedWith(t.Alpha, t.SecretHash, plain, message)

\* the identity element: the point every scalar maps to itself
Identity == << 0, 0 >>

\* a packet whose alpha is the identity element: the secret any node shares
\* with it is the identity too, so anyone can make its MAC valid
IdentityAlphaPacket ==
    MarshalSphinxPacket(ForgedWith(Identity, KDF(Identity),
        MarshalRoutingInfo([NextHop |-> << [Id |-> << 82, 99 >>,
                                            Address |-> << 104, 99, 58, 57, 57 >>,
                                            PubKey |-> << >>] >>,
                            RoutingCommands |-> << [Delay |-> 0,
                                                    Flag |-> << 240 >>] >>,
                            NextHopMetaData |-> << >>,
                            Mac |-> << >>]),
        << 104, 105 >>))

\* the path of two providers whose egress provider has a public key that is
\* too short ("short"), too long ("long") or the identity element
BadKey(kind, key) ==
    IF kind = "short" THEN SubSeq(key, 1, PublicKeySize - 1)
    ELSE IF kind = "long" THEN key \o << 0 >>
    ELSE Identity

BadKeyPath(kind) ==
    [E2EPath(0) EXCEPT
       !.EgressProvider.PubKey = BadKey(kind, E2EPath(0).EgressProvider.PubKey)]

\* the flag of a command that is neither RelayFlag nor LastHopFlag
UnknownFlag == << 66 >>

\* the final RoutingInfo of a packet for a destination, with the given flag
FinalRoutingTo(destination, flag) ==
    [NextHop |-> << [Id |-> destination.Id, Address |-> HostPort(destination),
                     PubKey |-> << >>] >>,
     RoutingCommands |-> << [Delay |-> 0, Flag |-> flag] >>,
     NextHopMetaData |-> << >>,
     Mac |-> << >>]

FinalRouting(flag) == FinalRoutingTo(Recipient, flag)

\* byte strings a node may be handed that are no well-formed packet
NoBytes == << >>

Garbage == << 255 >>

NoHeaderPacket == MarshalSphinxPacket([Hdr |-> << >>, Pld |-> << 65 >>])

NoNextHopPacket ==
    MarshalSphinxPacket(ForgedPacket(<< 5, 0 >>,
        MarshalRoutingInfo([FinalRouting(LastHopFlag) EXCEPT !.NextHop = << >>]),
        << 65 >>))

NoCommandsPacket ==
    MarshalSphinxPacket(ForgedPacket(<< 5, 0 >>,
        MarshalRoutingInfo([FinalRouting(LastHopFlag)
                              EXCEPT !.RoutingCommands = << >>]),
        << 65 >>))

GarbageBetaPacket == MarshalSphinxPacket(ForgedPacket(<< 5, 0 >>, Garbage, << 65 >>))

MalformedInputs ==
    { NoBytes, Garbage, NoHeaderPacket, NoNextHopPacket, NoCommandsPacket,
      GarbageBetaPacket }

\* well-formed packets for N0 alone: the last hop, and an unknown flag
LastHopPacket ==
    MarshalSphinxPacket(ForgedPacket(<< 5, 0 >>,
        MarshalRoutingInfo(FinalRouting(LastHopFlag)), << 104, 105 >>))

UnknownFlagPacket ==
    MarshalSphinxPacket(ForgedPacket(<< 5, 0 >>,
        MarshalRoutingInfo(FinalRouting(UnknownFlag)), << 104, 105 >>))

RawInputs ==
    MalformedInputs \cup { LastHopPacket, UnknownFlagPacket, IdentityAlphaPacket }

(***************************************************************************)
(* The provider server (package provider).  The provider is node N0.  Its  *)
(* file system holds the directories ./inboxes/<id>, each a list of files, *)
(* and "./inboxes/" itself, the directory of the empty id, once something  *)
(* was made in it; its network is the list of packets it sent.             *)
(***************************************************************************)
\* flags.AssignFlag, CommFlag, TokenFlag, PullFlag
AssignFlag == << 162 >>

CommFlag == << 198 >>

TokenFlag == << 169 >>

PullFlag == << 255 >>

\* config.WrapWithFlag: the marshalled GeneralPacket{Flag, Data}
WrapWithFlag(flag, data) == BytesField(1, flag) \o BytesField(2, data)

\* fmt.Sprintf("%x", b): two lower-case hex digits a byte
HexDigit(n) == IF n < 10 THEN 48 + n ELSE 87 + n

Hex(b) ==
    SubSeq([i \in 1..(2 * Len(b)) |->
              IF i % 2 = 1 THEN HexDigit(b[(i + 1) \div 2] \div 16)
              ELSE HexDigit(b[i \div 2] % 16)], 1, 2 * Len(b))

\* helpers.SHA256, a hash of the model: it tells the byte strings of the
\* model apart
SHA256(b) == Bytes16((WeightedSum(b, 1, Len(b)) * 7919 + 13) % 65536)

\* "TMP_Token"
TmpToken == << 84, 77, 80, 95, 84, 111, 107, 101, 110 >>

\* config.ClientConfig and config.PullRequest on the wire
MarshalClientConfig(c) ==
    BytesField(1, c.Id) \o BytesField(2, c.Host) \o BytesField(3, c.Port)
    \o BytesField(4, c.PubKey)

ZeroClientConfig == [Id |-> << >>, Host |-> << >>, Port |-> << >>, PubKey |-> << >>]

ClientConfigOfFields(p) ==
    IF ~p.ok \/ ~WireTypesOk(p.fields, << 2, 2, 2, 2 >>)
    THEN [ok |-> FALSE, msg |-> ZeroClientConfig]
    ELSE [ok |-> TRUE,
          msg |-> [Id |-> BytesOf(p.fields, 1), Host |-> BytesOf(p.fields, 2),
                   Port |-> BytesOf(p.fields, 3), PubKey |-> BytesOf(p.fields, 4)]]

UnmarshalClientConfig(b) == ClientConfigOfFields(ParseFrom(b, 1))

MarshalPullRequest(r) ==
    BytesField(1, r.ClientPublicKey) \o BytesField(2, r.Token)

ZeroPullRequest == [ClientPublicKey |-> << >>, Token |-> << >>]

PullRequestOfFields(p) ==
    IF ~p.ok \/ ~WireTypesOk(p.fields, << 2, 2 >>)
    THEN [ok |-> FALSE, msg |-> ZeroPullRequest]
    ELSE [ok |-> TRUE,
          msg |-> [ClientPublicKey |-> BytesOf(p.fields, 1),
                   Token |-> BytesOf(p.fields, 2)]]

UnmarshalPullRequest(b) == PullRequestOfFields(ParseFrom(b, 1))

\* errors of the provider and of its file system and network
ErrAuthentication == "authentication went wrong"

ErrNoSuchDirectory == "open: no such file or directory"

ErrIsDirectory == "read: is a directory"

ErrDial == "dial tcp: connection refused"

ErrRead == "read: connection reset by peer"

\* ClientRecord{}: what the map assignedClients yields for a missing key
ZeroClientRecord ==
    [id |-> << >>, host |-> << >>, port |-> << >>, pubKey |-> << >>,
     token |-> << >>]

\* p.assignedClients[clientID]
RecordOf(clients, clientID) ==
    IF clientID \in DOMAIN clients THEN clients[clientID] ELSE ZeroClientRecord

\* helpers.DirExists("./inboxes/<id>")
DirExists(fs, id) == id \in DOMAIN fs

\* os.MkdirAll("./inboxes/<id>"): the directory and its parent "./inboxes/"
MkdirAll(fs, id) ==
    [x \in DOMAIN fs \cup { id, << >> } |-> IF x \in DOMAIN fs THEN fs[x] ELSE << >>]

\* the inbox directories that ioutil.ReadDir lists in the directory of id
SubDirs(fs, id) == IF id = << >> THEN DOMAIN fs \ { << >> } ELSE { }

\* a directory name that sorts before the file names "TMP_MESSAGE_..."
SortsFirst(name) == name[1] < 84

\* a function with one more or one changed entry
MapPut(f, k, v) == [x \in DOMAIN f \cup { k } |-> IF x = k THEN v ELSE f[x]]

\* registerNewClient once the ClientConfig is unmarshalled: the record is
\* saved, the inbox directory is made when it is missing
RegisteredClient(clients, fs, conf) ==
    LET clientID == Hex(conf.PubKey)
        token == SHA256(TmpToken \o clientID)
        record == [id |-> clientID, host |-> conf.Host, port |-> conf.Port,
                   pubKey |-> conf.PubKey, token |-> token]
    IN [err |-> NoErr, token |-> token,
        clients |-> MapPut(clients, clientID, record),
        fs |-> IF DirExists(fs, clientID) THEN fs ELSE MkdirAll(fs, clientID)]

registerNewClient(clients, fs, clientBytes) ==
    LET un == UnmarshalClientConfig(clientBytes)
    IN IF ~un.ok
       THEN [err |-> ErrUnmarshal, token |-> << >>, clients |-> clients, fs |-> fs]
       ELSE RegisteredClient(clients, fs, un.msg)

\* handleAssignRequest: the token goes back wrapped with the token flag
handleAssignRequest(clients, fs, packet) ==
    LET r == registerNewClient(clients, fs, packet)
    IN IF r.err # NoErr THEN [r EXCEPT !.token = << >>]
       ELSE [r EXCEPT !.token = WrapWithFlag(TokenFlag, r.token)]

authenticateUser(clients, clientKey, clientToken) ==
    /\ RecordOf(clients, Hex(clientKey)).token = clientToken
    /\ RecordOf(clients, Hex(clientKey)).pubKey = clientKey

\* a faulty fetchMessages: the files that were read are left in the inbox
fetchMessages_KeepsFiles(fs, clientID) ==
    IF ~DirExists(fs, clientID)
    THEN [signal |-> "NI", messages |-> << >>, err |-> NoErr, fs |-> fs]
    ELSE IF Len(fs[clientID]) = 0 /\ SubDirs(fs, clientID) = { }
    THEN [signal |-> "EI", messages |-> << >>, err |-> NoErr, fs |-> fs]
    ELSE IF SubDirs(fs, clientID) # { }
    THEN [signal |-> "", messages |-> << >>, err |-> ErrIsDirectory, fs |-> fs]
    ELSE [signal |-> "SI",
          messages |-> [i \in 1..Len(fs[clientID]) |->
                          WrapWithFlag(CommFlag, fs[clientID][i])],
          err |-> NoErr,
          fs |-> fs]

\* fetchMessages.  ioutil.ReadDir lists the entries sorted by name; reading
\* an inbox directory as a file fails, and the files that were read before
\* it are already removed.
fetchMessages(fs, clientID) ==
    IF ~DirExists(fs, clientID)
    THEN [signal |-> "NI", messages |-> << >>, err |-> NoErr, fs |-> fs]
    ELSE IF Len(fs[clientID]) = 0 /\ SubDirs(fs, clientID) = { }
    THEN [signal |-> "EI", messages |-> << >>, err |-> NoErr, fs |-> fs]
    ELSE IF \E d \in SubDirs(fs, clientID) : SortsFirst(d)
    THEN [signal |-> "", messages |-> << >>, err |-> ErrIsDirectory, fs |-> fs]
    ELSE IF SubDirs(fs, clientID) # { }
    THEN [signal |-> "", messages |-> << >>, err |-> ErrIsDirectory,
          fs |-> [fs EXCEPT ![clientID] = << >>]]
    ELSE [signal |-> "SI",
          messages |-> [i \in 1..Len(fs[clientID]) |->
                          WrapWithFlag(CommFlag, fs[clientID][i])],
          err |-> NoErr,
          fs |-> [fs EXCEPT ![clientID] = << >>]]

\* handlePullRequest once the PullRequest is unmarshalled
PulledMessages(clients, fs, request) ==
    IF authenticateUser(clients, request.ClientPublicKey, request.Token)
    THEN fetchMessages(fs, Hex(request.ClientPublicKey))
    ELSE [signal |-> "", messages |-> << >>, err |-> ErrAuthentication, fs |-> fs]

handlePullRequest(clients, fs, rqsBytes) ==
    LET un == UnmarshalPullRequest(rqsBytes)
    IN IF ~un.ok
       THEN [signal |-> "", messages |-> << >>, err |-> ErrUnmarshal, fs |-> fs]
       ELSE PulledMessages(clients, fs, un.msg)

\* storeMessage: os.Create fails when the inbox directory is missing
storeMessage(fs, message, inboxID) ==
    IF ~DirExists(fs, inboxID) THEN [err |-> ErrNoSuchDirectory, fs |-> fs]
    ELSE [err |-> NoErr, fs |-> [fs EXCEPT ![inboxID] = Append(@, message)]]

\* forwardPacket: dialOk tells whether the next hop can be reached
forwardPacket(sphinxPacket, address, dialOk) ==
    IF dialOk
    THEN [err |-> NoErr,
          sent |-> << [address |-> address,
                       bytes |-> WrapWithFlag(CommFlag, sphinxPacket)] >>]
    ELSE [err |-> ErrDial, sent |-> << >>]

\* a faulty dispatch: a packet of the last hop is forwarded like any other
Dispatched_ForwardsAll(res, fs, dialOk) ==
    IF res.err # NoErr THEN [err |-> res.err, sent |-> << >>, fs |-> fs]
    ELSE [err |-> forwardPacket(res.packet, res.hop.Address, dialOk).err,
          sent |-> forwardPacket(res.packet, res.hop.Address, dialOk).sent,
          fs |-> fs]

\* receivedPacket once ProcessPacket returned res: what is returned, sent
\* and stored
Dispatched(res, fs, dialOk) ==
    IF res.err # NoErr THEN [err |-> res.err, sent |-> << >>, fs |-> fs]
    ELSE IF res.commands.Flag = RelayFlag
    THEN [err |-> forwardPacket(res.packet, res.hop.Address, dialOk).err,
          sent |-> forwardPacket(res.packet, res.hop.Address, dialOk).sent,
          fs |-> fs]
    ELSE IF res.commands.Flag = LastHopFlag
    THEN [err |-> storeMessage(fs, res.packet, res.hop.Id).err,
          sent |-> << >>,
          fs |-> storeMessage(fs, res.packet, res.hop.Id).fs]
    ELSE [err |-> NoErr, sent |-> << >>, fs |-> fs]

\* config.GeneralPacket on the wire
UnmarshalGeneralPacket(b) ==
    LET p == ParseFrom(b, 1)
    IN IF ~p.ok \/ ~WireTypesOk(p.fields, << 2, 2 >>)
       THEN [ok |-> FALSE, msg |-> [Flag |-> << >>, Data |-> << >>]]
       ELSE [ok |-> TRUE,
             msg |-> [Flag |-> BytesOf(p.fields, 1), Data |-> BytesOf(p.fields, 2)]]

\* config.ProviderResponse on the wire: the count is omitted when it is zero,
\* every packet is written, an empty one too
RECURSIVE PacketsField(_)
PacketsField(packets) ==
    IF Len(packets) = 0 THEN << >>
    ELSE LenDelim(2, packets[1]) \o PacketsField(Tail(packets))

MarshalProviderResponse(r) ==
    (IF r.NumberOfPackets = 0 THEN << >> ELSE << 8 >> \o Varint(r.NumberOfPackets))
    \o PacketsField(r.Packets)

\* createClientResponse(marshalledPackets...)
createClientResponse(marshalledPackets) ==
    [NumberOfPackets |-> Len(marshalledPackets), Packets |-> marshalledPackets]

\* what handleConnection leaves behind when it returns without a handler
\* having changed anything: the deferred conn.Close() has run once
ConnectionDone(branch, err, clients, fs) ==
    [branch |-> branch, err |-> err, closes |-> 1, replies |-> << >>,
     written |-> << >>, clients |-> clients, fs |-> fs, sent |-> << >>,
     token |-> << >>]

\* a faulty handleConnection: conn.Close() is called at the end of the
\* function, so that an early return leaves the connection open
handleConnection_CloseAtEnd(clients, fs, readOk, bytes, dialOk) ==
    LET un == UnmarshalGeneralPacket(bytes)
    IN IF ~readOk \/ ~un.ok
       THEN [ConnectionDone("none", ErrUnmarshal, clients, fs) EXCEPT !.closes = 0]
       ELSE ConnectionDone("default", NoErr, clients, fs)

\* handleConnection(conn): readOk tells whether conn.Read returned data,
\* bytes is that data, dialOk whether a next hop can be reached
handleConnection(clients, fs, readOk, bytes, dialOk) ==
    LET un == UnmarshalGeneralPacket(bytes)
        assign == handleAssignRequest(clients, fs, un.msg.Data)
        raw == registerNewClient(clients, fs, un.msg.Data)
        res == ProcessSphinxPacket(un.msg.Data, PrivKey(0))
        comm == Dispatched(res, fs, dialOk)
        pull == handlePullRequest(clients, fs, un.msg.Data)
    IN IF ~readOk THEN ConnectionDone("read", ErrRead, clients, fs)
       ELSE IF ~un.ok THEN ConnectionDone("unmarshal", ErrUnmarshal, clients, fs)
       ELSE IF un.msg.Flag = AssignFlag
       THEN IF assign.err # NoErr
            THEN ConnectionDone("assign", assign.err, clients, fs)
            ELSE [ConnectionDone("assign", NoErr, assign.clients, assign.fs)
                    EXCEPT !.replies = << createClientResponse(<< assign.token >>) >>,
                           !.written = << MarshalProviderResponse(
                                            createClientResponse(<< assign.token >>)) >>,
                           !.token = raw.token]
       ELSE IF un.msg.Flag = CommFlag
       THEN [ConnectionDone("comm", comm.err, clients, comm.fs)
               EXCEPT !.sent = comm.sent]
       ELSE IF un.msg.Flag = PullFlag
       THEN IF pull.err # NoErr
            THEN ConnectionDone("pull", pull.err, clients, pull.fs)
            ELSE [ConnectionDone("pull", NoErr, clients, pull.fs)
                    EXCEPT !.replies = << createClientResponse(pull.messages) >>,
                           !.written = << MarshalProviderResponse(
                                            createClientResponse(pull.messages)) >>]
       ELSE ConnectionDone("default", NoErr, clients, fs)

\* the clients of the provider: their public keys and configurations; a
\* client is known by the hex of its public key
ClientKeys == { << 17, 34 >>, << 51, 68 >> }

ClientConf(k) ==
    [Id |-> Hex(k), Host |-> << 104, 99 >>, Port |-> << 57, 57 >>, PubKey |-> k]

TokenOf(k) == SHA256(TmpToken \o Hex(k))

\* what the provider may be sent: assign requests, pull requests, packets
AssignRequests ==
    { MarshalClientConfig(ClientConf(k)) : k \in ClientKeys } \cup { Garbage }

PullRequests ==
    { MarshalPullRequest([ClientPublicKey |-> k, Token |-> t]) :
        k \in ClientKeys \cup { << >> },
        t \in { TokenOf(k2) : k2 \in ClientKeys } \cup { << >> } }
    \cup { Garbage }

StoredTexts == { << 104, 105 >>, << 121, 111 >> }

RelayPacket ==
    MarshalSphinxPacket(
        PackForwardMessage(E2EPath(0), << 0, 0 >>, << 104, 105 >>, << 5, 0 >>).packet)

BadMacPacket ==
    MarshalSphinxPacket(
        [Hdr |-> << [PackForwardMessage(E2EPath(0), << 0, 0 >>, << 104, 105 >>,
                                        << 5, 0 >>).packet.Hdr[1]
                       EXCEPT !.Mac[1] = Xor8(@, 1)] >>,
         Pld |-> << 65 >>])

StorePacket(k, text) ==
    MarshalSphinxPacket(ForgedPacket(<< 5, 0 >>,
        MarshalRoutingInfo(FinalRoutingTo(ClientConf(k), LastHopFlag)), text))

\* a packet of the last hop whose next hop has the empty id
RootStorePacket ==
    MarshalSphinxPacket(ForgedPacket(<< 5, 0 >>,
        MarshalRoutingInfo(
            FinalRoutingTo([ClientConf(<< 17, 34 >>) EXCEPT !.Id = << >>],
                           LastHopFlag)),
        << 104, 105 >>))

ProviderPackets ==
    { RelayPacket, BadMacPacket, UnknownFlagPacket, Garbage, NoHeaderPacket,
      RootStorePacket }
    \cup { StorePacket(k, text) : k \in ClientKeys, text \in StoredTexts }

\* what a connection may deliver: the requests and packets above wrapped with
\* their flag, a packet with a flag of no kind, and bytes that are no packet
ConnectionData ==
    { WrapWithFlag(AssignFlag, MarshalClientConfig(ClientConf(<< 17, 34 >>))),
      WrapWithFlag(AssignFlag, Garbage),
      WrapWithFlag(PullFlag,
          MarshalPullRequest([ClientPublicKey |-> << 17, 34 >>,
                              Token |-> TokenOf(<< 17, 34 >>)])),
      WrapWithFlag(PullFlag,
          MarshalPullRequest([ClientPublicKey |-> << 17, 34 >>, Token |-> << >>])),
      WrapWithFlag(PullFlag, Garbage),
      WrapWithFlag(CommFlag, RelayPacket),
      WrapWithFlag(CommFlag, BadMacPacket),
      WrapWithFlag(CommFlag, UnknownFlagPacket),
      WrapWithFlag(CommFlag, NoHeaderPacket),
      WrapWithFlag(UnknownFlag, << 1 >>),
      Garbage }
    \cup { WrapWithFlag(CommFlag, StorePacket(<< 17, 34 >>, text)) :
             text \in StoredTexts }

\* at most this many files in the inboxes, and this many registrations
MaxStored == 2

MaxRegistrations == 3

(***************************************************************************)
(* The client's choice of a mix sequence (package client).                 *)
(***************************************************************************)
\* at most this many active mixes in the list the client draws from
MaxActive == 3

\* the lists of active mixes, each mix named by a number
MixLists ==
    UNION { { l \in [1..n -> 1..MaxActive] :
                \A i, j \in 1..n : l[i] = l[j] => i = j } : n \in 0..MaxActive }

\* the orders a random sample may draw n mixes in
Perms(n) == { f \in [1..n -> 1..n] : \A i, j \in 1..n : f[i] = f[j] => i = j }

ErrEmptyMixList == "cannot take a mix sequence from an empty list"

\* a faulty getRandomMixSequence: asking for more mixes than there are fails
getRandomMixSequence_TooFewFails(mixes, length, perm) ==
    IF Len(mixes) = 0 \/ length > Len(mixes)
    THEN [err |-> ErrEmptyMixList, sequence |-> << >>]
    ELSE [err |-> NoErr, sequence |-> [i \in 1..length |-> mixes[perm[i]]]]

\* getRandomMixSequence(mixes, length); perm is the order the random sample
\* draws the mixes in
getRandomMixSequence(mixes, length, perm) ==
    IF Len(mixes) = 0 THEN [err |-> ErrEmptyMixList, sequence |-> << >>]
    ELSE IF length > Len(mixes) THEN [err |-> NoErr, sequence |-> mixes]
    ELSE [err |-> NoErr, sequence |-> [i \in 1..length |-> mixes[perm[i]]]]

\* goroutines that call Shutdown, and goroutines that call Wait
MaxCallers == 2

MaxWaiters == 2

\* at most this many connections are accepted
MaxAccepted == 2

Callers == 1..MaxCallers

Waiters == 1..MaxWaiters

(***************************************************************************)
(* State.                                                                  *)
(***************************************************************************)
VARIABLES
    phase,      \* "idle", "inflight", "delivered", "dropped", "failed", "raw",
                \* "secrets"
    sent,       \* the arguments and the error of the last packet built
    wire,       \* the bytes of the packet in flight (or delivered)
    hopIdx,     \* how many nodes of the path have unwrapped the packet
    wireIn,     \* the bytes given to the last ProcessSphinxPacket call
    ret,        \* what the last ProcessSphinxPacket call returned
    hops,       \* the next hops returned so far, in order
    cmds,       \* the commands returned so far, in order
    tamper,     \* the byte changed in flight: field "none", "beta" or "alpha"
                \* ("raw" when the bytes came from no sender of the model,
                \* "key" when the path held a bad public key)
    prevBuilt,  \* the node count and beta length of the packet built before
    assignedClients,  \* the provider's map from client id to ClientRecord
    inboxes,    \* the provider's inbox directories: id -> files, oldest first
    issued,     \* the tokens registerNewClient returned so far, in order
    provRet     \* the provider's last call: its input, what it returned and
                \* sent, and the clients and inboxes it started from

\* the variables of the packet in flight, and all the other variables
packetVars ==
    << phase, sent, wire, hopIdx, wireIn, ret, hops, cmds, tamper, prevBuilt >>

\* the last connection handleConnection was given
VARIABLE conn

providerVars == << assignedClients, inboxes, issued, provRet, conn >>

NoConn ==
    [readOk |-> TRUE, bytes |-> << >>, dialOk |-> TRUE, branch |-> "none",
     err |-> NoErr, closes |-> 0, replies |-> << >>, written |-> << >>,
     sent |-> << >>, clientsBefore |-> << >>, fsBefore |-> << >>]

\* the provider's lifecycle: haltOnce, haltedCh, and where each goroutine is
VARIABLES haltOnce, haltedCh, panicked, callerPc, waitPc, runPc, presencePc,
          tickReady

\* the client's last call of getRandomMixSequence
VARIABLE mixSeq

clientVars == << mixSeq >>

NoMixSeq ==
    [op |-> "none", mixes |-> << >>, isNil |-> FALSE, length |-> 0,
     err |-> NoErr, sequence |-> << >>]

\* the listener made by NewProviderServer, where the accept loop is, and how
\* many connections it has accepted
VARIABLES listener, acceptPc, accepted

acceptVars == << listener, acceptPc, accepted >>

lifecycleVars ==
    << haltOnce, haltedCh, panicked, callerPc, waitPc, runPc, presencePc,
       tickReady >>

otherVars == << runs, providerVars, lifecycleVars, clientVars, acceptVars >>

vars == << packetVars, otherVars >>

NoSent ==
    [nodes |-> << >>, dest |-> Recipient, delays |-> << >>, message |-> << >>,
     x |-> << 0, 0 >>, err |-> NoErr]

NoRet ==
    [err |-> NoErr, hop |-> ZeroHop, commands |-> ZeroCommands, packet |-> << >>,
     decrypted |-> { }]

NoTamper == [field |-> "none", pos |-> 0, mask |-> 0]

\* the provider was not called yet
NoCall ==
    [op |-> "none", input |-> << >>, err |-> NoErr, out |-> << >>,
     signal |-> "", sent |-> << >>, res |-> NoRet, dialOk |-> TRUE,
     clientsBefore |-> << >>, fsBefore |-> << >>]

Init ==
    /\ phase = "idle"
    /\ sent = NoSent
    /\ wire = << >>
    /\ hopIdx = 0
    /\ wireIn = << >>
    /\ ret = NoRet
    /\ hops = << >>
    /\ cmds = << >>
    /\ tamper = NoTamper
    /\ prevBuilt = [n |-> 0, betaLen |-> 0]
    /\ runs = << >>
    /\ assignedClients = << >>
    /\ inboxes = << >>
    /\ issued = << >>
    /\ provRet = NoCall
    /\ conn = NoConn
    /\ haltOnce = "fresh"
    /\ haltedCh = "open"
    /\ panicked = FALSE
    /\ listener = "open"
    /\ acceptPc = "off"
    /\ accepted = 0
    /\ callerPc = [c \in Callers |-> "idle"]
    /\ waitPc = [w \in Waiters |-> "out"]
    /\ runPc = "off"
    /\ presencePc = "off"
    /\ tickReady = FALSE
    /\ mixSeq = NoMixSeq

\* the header and the payload of the packet on the wire
WireHeader == UnmarshalSphinxPacket(wire).msg.Hdr[1]

WirePayload == UnmarshalSphinxPacket(wire).msg.Pld

\* the state after a build returned r for these arguments
Built(nodes, delays, message, x, r) ==
    /\ sent' = [nodes |-> nodes, dest |-> Recipient, delays |-> delays,
                message |-> message, x |-> x, err |-> r.err]
    /\ phase' = IF r.err = NoErr THEN "inflight" ELSE "failed"
    /\ wire' = IF r.err = NoErr THEN MarshalSphinxPacket(r.packet) ELSE << >>
    /\ UNCHANGED << hopIdx, wireIn, ret, hops, cmds, prevBuilt >>
    /\ UNCHANGED otherVars

\* a sender calls PackForwardMessage and marshals the packet
Send(m, delays, message, x) ==
    /\ phase = "idle"
    /\ Built(NodesOf(E2EPath(m)), delays, message, x,
             PackForwardMessage(E2EPath(m), delays, message, x))
    /\ UNCHANGED tamper

\* a packet is built for the node list [N0] alone (createHeader and
\* encapsulateContent on one node)
SendSingleHop(delays, message, x) ==
    /\ phase = "idle"
    /\ Built(<< MixConfig(0) >>, delays, message, x,
             PackNodes(<< MixConfig(0) >>, Recipient, delays, message, x))
    /\ UNCHANGED tamper

\* the faults of encapsulateHeader for n nodes
Faults(n) ==
    { [step |-> st, at |-> 0] : st \in { "Marshal", "KDF", "AesCtr", "computeMac" } }
    \cup { [step |-> st, at |-> i] :
             st \in { "Marshal", "KDF", "AesCtr", "KDF2", "computeMac" },
             i \in 1..(n - 1) }

\* a sender calls PackForwardMessage and one library call of encapsulateHeader
\* fails
SendWithFault(m, message, x, fault) ==
    /\ phase = "idle"
    /\ Built(NodesOf(E2EPath(m)), [i \in 1..(m + 2) |-> 0], message, x,
             PackNodesWith(NodesOf(E2EPath(m)), Recipient,
                           [i \in 1..(m + 2) |-> 0], message, x, fault))
    /\ tamper' = [field |-> fault.step, pos |-> fault.at, mask |-> 0]

\* a sender calls PackForwardMessage with a path that holds a bad public key
SendBadKey(kind, message, x) ==
    /\ phase = "idle"
    /\ Built(NodesOf(BadKeyPath(kind)), << 0, 0 >>, message, x,
             PackForwardMessage(BadKeyPath(kind), << 0, 0 >>, message, x))
    /\ tamper' = [field |-> "key", pos |-> 2, mask |-> 0]

\* the next node of the path unwraps the packet with its private key
Process ==
    /\ phase = "inflight"
    /\ hopIdx < Len(sent.nodes)
    /\ \E r \in { ProcessSphinxPacket(wire, PrivKeyOfNode(sent.nodes[hopIdx + 1])) } :
          /\ ret' = r
          /\ wireIn' = wire
          /\ IF r.err # NoErr
             THEN /\ phase' = "dropped"
                  /\ UNCHANGED << wire, hopIdx, hops, cmds >>
             ELSE /\ hops' = Append(hops, r.hop)
                  /\ cmds' = Append(cmds, r.commands)
                  /\ hopIdx' = hopIdx + 1
                  /\ wire' = r.packet
                  /\ phase' = IF r.commands.Flag = RelayFlag THEN "inflight"
                              ELSE IF r.commands.Flag = LastHopFlag THEN "delivered"
                              ELSE "dropped"
    /\ UNCHANGED << sent, tamper, prevBuilt >>
    /\ UNCHANGED otherVars

\* node N0 is handed the bytes b, which come from no sender of the model
ReceiveRaw(b) ==
    /\ phase = "idle"
    /\ \E r \in { ProcessSphinxPacket(b, PrivKey(0)) } :
          /\ ret' = r
          /\ wireIn' = b
          /\ wire' = r.packet
    /\ phase' = "raw"
    /\ tamper' = [field |-> "raw", pos |-> 0, mask |-> 0]
    /\ UNCHANGED << sent, hopIdx, hops, cmds, prevBuilt >>
    /\ UNCHANGED otherVars

\* the packet with one byte of its header changed on the way to the first node
TamperedWire(field, pos, mask) ==
    LET p == UnmarshalSphinxPacket(wire).msg
        h == p.Hdr[1]
        h2 == IF field = "beta"
              THEN [h EXCEPT !.Beta = [h.Beta EXCEPT ![pos] = Xor8(@, mask)]]
              ELSE [h EXCEPT !.Alpha = [h.Alpha EXCEPT ![pos] = Xor8(@, mask)]]
    IN MarshalSphinxPacket([p EXCEPT !.Hdr = << h2 >>])

\* the position in beta that end ("first", "middle" or "last") names
BetaPos(end, len) ==
    IF end = "first" THEN 1
    ELSE IF end = "middle" THEN (len + 1) \div 2
    ELSE len

\* one bit of one byte of beta is flipped on the way to the first node
TamperBeta(end, mask) ==
    /\ phase = "inflight"
    /\ hopIdx = 0
    /\ tamper = NoTamper
    /\ Len(WireHeader.Beta) > 0
    /\ wire' = TamperedWire("beta", BetaPos(end, Len(WireHeader.Beta)), mask)
    /\ tamper' = [field |-> "beta", pos |-> BetaPos(end, Len(WireHeader.Beta)),
                  mask |-> mask]
    /\ UNCHANGED << phase, sent, hopIdx, wireIn, ret, hops, cmds, prevBuilt >>
    /\ UNCHANGED otherVars

\* one bit of one byte of alpha is flipped on the way to the first node
TamperAlpha(pos, mask) ==
    /\ phase = "inflight"
    /\ hopIdx = 0
    /\ tamper = NoTamper
    /\ pos <= Len(WireHeader.Alpha)
    /\ wire' = TamperedWire("alpha", pos, mask)
    /\ tamper' = [field |-> "alpha", pos |-> pos, mask |-> mask]
    /\ UNCHANGED << phase, sent, hopIdx, wireIn, ret, hops, cmds, prevBuilt >>
    /\ UNCHANGED otherVars

\* the packet bytes with the payload pld in place of their own
WithPayload(bytes, pld) ==
    MarshalSphinxPacket([UnmarshalSphinxPacket(bytes).msg EXCEPT !.Pld = pld])

\* the changes of a payload: a bit of its first byte flipped, all of its
\* first byte flipped, a byte more, no payload at all
PayloadChanges == { "bit", "byte", "longer", "none" }

ChangedPayload(pld, change) ==
    IF change = "none" THEN << >>
    ELSE IF change = "longer" THEN pld \o << 0 >>
    ELSE IF pld = << >> THEN pld
    ELSE [pld EXCEPT ![1] = Xor8(@, IF change = "bit" THEN 1 ELSE 255)]

AltPayloads(pld) ==
    { ChangedPayload(pld, change) : change \in PayloadChanges } \ { pld }

\* the payload of the packet is changed on its way to the next node
TamperPayload(change) ==
    /\ phase = "inflight"
    /\ hopIdx < Len(sent.nodes)
    /\ tamper = NoTamper
    /\ sent.err = NoErr
    /\ ChangedPayload(WirePayload, change) # WirePayload
    /\ wire' = WithPayload(wire, ChangedPayload(WirePayload, change))
    /\ tamper' = [field |-> "payload", pos |-> hopIdx, mask |-> 0]
    /\ UNCHANGED << phase, sent, hopIdx, wireIn, ret, hops, cmds, prevBuilt >>
    /\ UNCHANGED otherVars

\* the sender turns to its next message, remembering the size of this one
NextMessage ==
    /\ phase = "inflight"
    /\ hopIdx = 0
    /\ tamper = NoTamper
    /\ prevBuilt' = [n |-> Len(sent.nodes), betaLen |-> Len(WireHeader.Beta)]
    /\ phase' = "idle"
    /\ sent' = NoSent
    /\ wire' = << >>
    /\ UNCHANGED << hopIdx, wireIn, ret, hops, cmds, tamper >>
    /\ UNCHANGED otherVars

Next ==
    \/ \E m \in 0..MaxMixes, x \in XValues, message \in Messages :
         \E len \in (m + 1)..(m + 3) :
           \E delays \in DelaySeqs(len) : Send(m, delays, message, x)
    \/ \E x \in XValues, message \in Messages :
         \E delays \in DelaySeqs(1) : SendSingleHop(delays, message, x)
    \/ \E kind \in { "short", "long", "identity" }, x \in XValues,
         message \in Messages : SendBadKey(kind, message, x)
    \/ Process
    \/ \E b \in RawInputs : ReceiveRaw(b)
    \/ \E end \in { "first", "middle", "last" }, mask \in Masks : TamperBeta(end, mask)
    \/ \E pos \in 1..PublicKeySize, mask \in Masks : TamperAlpha(pos, mask)
    \/ \E m \in 0..MaxMixes, message \in Messages, x \in XValues :
         \E fault \in Faults(m + 2) : SendWithFault(m, message, x, fault)
    \/ \E change \in PayloadChanges : TamperPayload(change)

Spec == Init /\ [][Next]_vars

\* a sender that builds no packet calls getSharedSecrets for the path of m
\* mixes with the scalar x
GetSharedSecrets(m, x) ==
    /\ phase \in { "idle", "secrets" }
    /\ prevBuilt.n = 0
    /\ phase' = "secrets"
    /\ runs' = (IF Len(runs) < 2 THEN runs ELSE Tail(runs))
                 \o << [nodes |-> NodesOf(E2EPath(m)), x |-> x,
                        result |-> getSharedSecrets(NodesOf(E2EPath(m)), x)] >>
    /\ UNCHANGED << sent, wire, hopIdx, wireIn, ret, hops, cmds, tamper, prevBuilt >>
    /\ UNCHANGED << providerVars, lifecycleVars, clientVars, acceptVars >>

\* the same for a path that holds a bad public key
GetSharedSecretsBadKey(kind, x) ==
    /\ phase \in { "idle", "secrets" }
    /\ prevBuilt.n = 0
    /\ phase' = "secrets"
    /\ runs' = (IF Len(runs) < 2 THEN runs ELSE Tail(runs))
                 \o << [nodes |-> NodesOf(BadKeyPath(kind)), x |-> x,
                        result |-> getSharedSecrets(NodesOf(BadKeyPath(kind)), x)] >>
    /\ UNCHANGED << sent, wire, hopIdx, wireIn, ret, hops, cmds, tamper, prevBuilt >>
    /\ UNCHANGED << providerVars, lifecycleVars, clientVars, acceptVars >>

\* the sender alone, building one packet after another
NextSender ==
    \/ \E m \in 0..MaxMixes, x \in XValues : GetSharedSecrets(m, x)
    \/ \E kind \in { "short", "long", "identity" }, x \in XValues :
         GetSharedSecretsBadKey(kind, x)
    \/ \E kind \in { "short", "long", "identity" }, message \in Messages,
          x \in XValues : SendBadKey(kind, message, x)
    \/ \E m \in 0..MaxMixes, x \in XValues, message \in Messages :
         \E delays \in DelaySeqs(m + 2) : Send(m, delays, message, x)
    \/ NextMessage

SpecSender == Init /\ [][NextSender]_vars

(***************************************************************************)
(* The provider's handlers, each called with what a connection delivered.  *)
(***************************************************************************)
\* the number of files in all inboxes
RECURSIVE FileCount(_, _)
FileCount(fs, ids) ==
    IF ids = { } THEN 0
    ELSE LET id == CHOOSE x \in ids : TRUE
         IN Len(fs[id]) + FileCount(fs, ids \ { id })

\* receivedPacket(packet); dialOk: the next hop accepts the connection
ReceivedPacket(packet, dialOk) ==
    /\ \E res \in { ProcessSphinxPacket(packet, PrivKey(0)) } :
        \E d \in { Dispatched(res, inboxes, dialOk) } :
          /\ FileCount(d.fs, DOMAIN d.fs) <= MaxStored
          /\ inboxes' = d.fs
          /\ provRet' = [op |-> "receivedPacket", input |-> packet,
                         err |-> d.err, out |-> << >>, signal |-> "",
                         sent |-> d.sent, res |-> res, dialOk |-> dialOk,
                         clientsBefore |-> assignedClients,
                         fsBefore |-> inboxes]
    /\ UNCHANGED << assignedClients, issued, conn, runs, packetVars, lifecycleVars, clientVars, acceptVars >>

\* handleAssignRequest(packet)
HandleAssignRequest(packet) ==
    /\ Len(issued) < MaxRegistrations
    /\ \E r \in { registerNewClient(assignedClients, inboxes, packet) } :
        \E h \in { handleAssignRequest(assignedClients, inboxes, packet) } :
          /\ assignedClients' = h.clients
          /\ inboxes' = h.fs
          /\ issued' = IF r.err = NoErr THEN Append(issued, r.token) ELSE issued
          /\ provRet' = [op |-> "handleAssignRequest", input |-> packet,
                         err |-> h.err,
                         out |-> IF h.err = NoErr THEN << h.token >> ELSE << >>,
                         signal |-> "", sent |-> << >>, res |-> NoRet,
                         dialOk |-> TRUE,
                         clientsBefore |-> assignedClients,
                         fsBefore |-> inboxes]
    /\ UNCHANGED << conn, runs, packetVars, lifecycleVars, clientVars, acceptVars >>

\* handlePullRequest(rqsBytes)
HandlePullRequest(rqsBytes) ==
    /\ \E f \in { handlePullRequest(assignedClients, inboxes, rqsBytes) } :
          /\ inboxes' = f.fs
          /\ provRet' = [op |-> "handlePullRequest", input |-> rqsBytes,
                         err |-> f.err, out |-> f.messages,
                         signal |-> f.signal, sent |-> << >>, res |-> NoRet,
                         dialOk |-> TRUE,
                         clientsBefore |-> assignedClients,
                         fsBefore |-> inboxes]
    /\ UNCHANGED << assignedClients, issued, conn, runs, packetVars, lifecycleVars, clientVars, acceptVars >>

NextProvider ==
    \/ \E packet \in ProviderPackets, dialOk \in BOOLEAN :
         ReceivedPacket(packet, dialOk)
    \/ \E packet \in AssignRequests : HandleAssignRequest(packet)
    \/ \E rqsBytes \in PullRequests : HandlePullRequest(rqsBytes)

SpecProvider == Init /\ [][NextProvider]_vars

\* handleConnection(conn), the goroutine started for every accepted
\* connection, from the read to the deferred close
HandleConnection(readOk, bytes, dialOk) ==
    /\ \E h \in { handleConnection(assignedClients, inboxes, readOk, bytes, dialOk) } :
          /\ FileCount(h.fs, DOMAIN h.fs) <= MaxStored
          /\ Len(issued) + (IF h.token = << >> THEN 0 ELSE 1) <= MaxRegistrations
          /\ assignedClients' = h.clients
          /\ inboxes' = h.fs
          /\ issued' = IF h.token = << >> THEN issued ELSE Append(issued, h.token)
          /\ conn' = [readOk |-> readOk, bytes |-> bytes, dialOk |-> dialOk,
                      branch |-> h.branch, err |-> h.err, closes |-> h.closes,
                      replies |-> h.replies, written |-> h.written,
                      sent |-> h.sent, clientsBefore |-> assignedClients,
                      fsBefore |-> inboxes]
    /\ UNCHANGED << provRet, runs, packetVars, lifecycleVars, clientVars, acceptVars >>

NextConnection ==
    \E readOk \in BOOLEAN, bytes \in ConnectionData, dialOk \in BOOLEAN :
        HandleConnection(readOk, bytes, dialOk)

SpecConnection == Init /\ [][NextConnection]_vars

\* C28: every connection given to handleConnection is closed exactly once,
\* whatever the branch taken (read error, unmarshal error, handler error,
\* unknown flag, success); one reply is written exactly after an Assign
\* request handled without error (one packet: the token just issued, wrapped
\* with the Token flag) or a Pull request handled without error (the fetched
\* messages), its NumberOfPackets being the number of its packets; a Comm
\* packet, an unknown flag and a failed request write no reply
C28_Connection ==
    conn # NoConn =>
        LET un == UnmarshalGeneralPacket(conn.bytes)
            good == conn.readOk /\ un.ok /\ conn.err = NoErr
            pulled == handlePullRequest(conn.clientsBefore, conn.fsBefore,
                                        un.msg.Data)
        IN /\ conn.closes = 1
           /\ Len(conn.replies) <= 1
           /\ Len(conn.written) = Len(conn.replies)
           /\ conn.replies # << >> <=>
                  good /\ un.msg.Flag \in { AssignFlag, PullFlag }
           /\ \A i \in 1..Len(conn.replies) :
                  /\ conn.replies[i].NumberOfPackets = Len(conn.replies[i].Packets)
                  /\ conn.written[i] = MarshalProviderResponse(conn.replies[i])
                  /\ un.msg.Flag = AssignFlag =>
                         /\ issued # << >>
                         /\ conn.replies[i].Packets =
                                << WrapWithFlag(TokenFlag, issued[Len(issued)]) >>
                  /\ un.msg.Flag = PullFlag =>
                         conn.replies[i].Packets = pulled.messages
           /\ ~good => /\ conn.replies = << >>
                       /\ conn.sent = << >>

\* a Pull request was answered with the messages of the inbox
C28_Witness ==
    /\ conn.branch = "pull"
    /\ conn.closes = 1
    /\ Len(conn.replies) = 1
    /\ conn.replies[1].NumberOfPackets >= 1

(***************************************************************************)
(* The provider's lifecycle on a server built by NewProviderServer, which   *)
(* makes haltedCh.  Start runs run(), which starts the presence loop and    *)
(* waits; any goroutine may call Shutdown or Wait at any time.  Closing a   *)
(* closed channel panics and ends the program.                              *)
(***************************************************************************)
\* run up to p.Wait(): the presence loop is started with a new ticker
Start ==
    /\ ~panicked
    /\ runPc = "off"
    /\ runPc' = "waiting"
    /\ presencePc' = "select"
    /\ acceptPc' = "accept"
    /\ UNCHANGED << haltOnce, haltedCh, panicked, callerPc, waitPc, tickReady >>
    /\ UNCHANGED << packetVars, runs, providerVars, clientVars, listener, accepted >>

\* run returns from p.Wait() and closes the listener
RunReturn ==
    /\ ~panicked
    /\ runPc = "waiting"
    /\ haltedCh = "closed"
    /\ runPc' = "returned"
    /\ listener' = "closed"
    /\ UNCHANGED << haltOnce, haltedCh, panicked, callerPc, waitPc, presencePc,
                    tickReady >>
    /\ UNCHANGED << packetVars, runs, providerVars, clientVars, acceptPc, accepted >>

\* a faulty Shutdown: halt is called without haltOnce
ShutdownCall_NoOnce(c) ==
    /\ ~panicked
    /\ callerPc[c] \in { "idle", "done" }
    /\ callerPc' = [callerPc EXCEPT ![c] = "halting"]
    /\ UNCHANGED << haltOnce, haltedCh, panicked, waitPc, runPc, presencePc,
                    tickReady >>
    /\ UNCHANGED << packetVars, runs, providerVars, clientVars, acceptVars >>

\* Shutdown enters haltOnce.Do: the first caller runs halt, a caller that
\* arrives while halt runs waits for it, a later caller returns at once
ShutdownCall(c) ==
    /\ ~panicked
    /\ callerPc[c] \in { "idle", "done" }
    /\ IF haltOnce = "fresh"
       THEN /\ haltOnce' = "running"
            /\ callerPc' = [callerPc EXCEPT ![c] = "halting"]
       ELSE IF haltOnce = "running"
       THEN /\ callerPc' = [callerPc EXCEPT ![c] = "blocked"]
            /\ UNCHANGED haltOnce
       ELSE /\ callerPc' = [callerPc EXCEPT ![c] = "done"]
            /\ UNCHANGED haltOnce
    /\ UNCHANGED << haltedCh, panicked, waitPc, runPc, presencePc, tickReady >>
    /\ UNCHANGED << packetVars, runs, providerVars, clientVars, acceptVars >>

\* halt: close(p.haltedCh), then haltOnce is done and Shutdown returns
Halt(c) ==
    /\ ~panicked
    /\ callerPc[c] = "halting"
    /\ IF haltedCh = "closed"
       THEN /\ panicked' = TRUE
            /\ UNCHANGED << haltOnce, haltedCh, callerPc >>
       ELSE /\ haltedCh' = "closed"
            /\ haltOnce' = "done"
            /\ callerPc' = [callerPc EXCEPT ![c] = "done"]
            /\ UNCHANGED panicked
    /\ UNCHANGED << waitPc, runPc, presencePc, tickReady >>
    /\ UNCHANGED << packetVars, runs, providerVars, clientVars, acceptVars >>

\* a Shutdown that waited in haltOnce.Do returns once halt has returned
ShutdownReturn(c) ==
    /\ ~panicked
    /\ callerPc[c] = "blocked"
    /\ haltOnce = "done"
    /\ callerPc' = [callerPc EXCEPT ![c] = "done"]
    /\ UNCHANGED << haltOnce, haltedCh, panicked, waitPc, runPc, presencePc,
                    tickReady >>
    /\ UNCHANGED << packetVars, runs, providerVars, clientVars, acceptVars >>

\* Wait: the receive from haltedCh begins
WaitCall(w) ==
    /\ ~panicked
    /\ waitPc[w] \in { "out", "returned" }
    /\ waitPc' = [waitPc EXCEPT ![w] = "waiting"]
    /\ UNCHANGED << haltOnce, haltedCh, panicked, callerPc, runPc, presencePc,
                    tickReady >>
    /\ UNCHANGED << packetVars, runs, providerVars, clientVars, acceptVars >>

\* Wait: the receive from the closed haltedCh completes
WaitReturn(w) ==
    /\ ~panicked
    /\ waitPc[w] = "waiting"
    /\ haltedCh = "closed"
    /\ waitPc' = [waitPc EXCEPT ![w] = "returned"]
    /\ UNCHANGED << haltOnce, haltedCh, panicked, callerPc, runPc, presencePc,
                    tickReady >>
    /\ UNCHANGED << packetVars, runs, providerVars, clientVars, acceptVars >>

\* presenceInterval has passed: the ticker's channel holds a tick
Tick ==
    /\ ~panicked
    /\ presencePc \in { "select", "registering" }
    /\ ~tickReady
    /\ tickReady' = TRUE
    /\ UNCHANGED << haltOnce, haltedCh, panicked, callerPc, waitPc, runPc,
                    presencePc >>
    /\ UNCHANGED << packetVars, runs, providerVars, clientVars, acceptVars >>

\* startSendingPresence, case <-ticker.C
PresenceTick ==
    /\ ~panicked
    /\ presencePc = "select"
    /\ tickReady
    /\ tickReady' = FALSE
    /\ presencePc' = "registering"
    /\ UNCHANGED << haltOnce, haltedCh, panicked, callerPc, waitPc, runPc >>
    /\ UNCHANGED << packetVars, runs, providerVars, clientVars, acceptVars >>

\* helpers.RegisterMixProviderPresence returns; the loop selects again
PresenceRegistered ==
    /\ ~panicked
    /\ presencePc = "registering"
    /\ presencePc' = "select"
    /\ UNCHANGED << haltOnce, haltedCh, panicked, callerPc, waitPc, runPc,
                    tickReady >>
    /\ UNCHANGED << packetVars, runs, providerVars, clientVars, acceptVars >>

\* startSendingPresence, case <-p.haltedCh
PresenceStop ==
    /\ ~panicked
    /\ presencePc = "select"
    /\ haltedCh = "closed"
    /\ presencePc' = "stopped"
    /\ UNCHANGED << haltOnce, haltedCh, panicked, callerPc, waitPc, runPc,
                    tickReady >>
    /\ UNCHANGED << packetVars, runs, providerVars, clientVars, acceptVars >>

NextLifecycle ==
    \/ Start
    \/ RunReturn
    \/ \E c \in Callers : ShutdownCall(c)
    \/ \E c \in Callers : Halt(c)
    \/ \E c \in Callers : ShutdownReturn(c)
    \/ \E w \in Waiters : WaitCall(w)
    \/ \E w \in Waiters : WaitReturn(w)
    \/ Tick
    \/ PresenceTick
    \/ PresenceRegistered
    \/ PresenceStop

\* Every goroutine that can run is run in the end; a receive from a closed
\* channel can always proceed; a select with several ready cases picks one
\* of them at random, so a case that is ready again and again is taken.
FairLifecycle ==
    /\ WF_vars(RunReturn)
    /\ \A c \in Callers : WF_vars(Halt(c))
    /\ \A c \in Callers : WF_vars(ShutdownReturn(c))
    /\ \A w \in Waiters : WF_vars(WaitReturn(w))
    /\ WF_vars(PresenceRegistered)
    /\ SF_vars(PresenceStop)

SpecLifecycle == Init /\ [][NextLifecycle]_vars /\ FairLifecycle

\* listenForIncomingConnections: Accept returns a connection, which is given
\* to a new goroutine, and the loop accepts again
Accept ==
    /\ ~panicked
    /\ acceptPc = "accept"
    /\ listener = "open"
    /\ accepted < MaxAccepted
    /\ accepted' = accepted + 1
    /\ UNCHANGED << lifecycleVars, listener, acceptPc >>
    /\ UNCHANGED << packetVars, runs, providerVars, clientVars >>

\* the errors Accept can return: a net.Error that is not temporary (what the
\* net package returns for a closed listener), a temporary net.Error, and an
\* error that is no net.Error
AcceptErrors == { "permanent", "temporary", "other" }

\* listenForIncomingConnections: Accept on the closed listener returns an
\* error; a net.Error that is not temporary reaches
\* Panicf("Critical accept failure"), every other error reaches continue
AcceptError(kind) ==
    /\ ~panicked
    /\ acceptPc = "accept"
    /\ listener = "closed"
    /\ IF kind = "permanent"
       THEN acceptPc' = "panic" /\ panicked' = TRUE
       ELSE acceptPc' = "continue" /\ UNCHANGED panicked
    /\ UNCHANGED << haltOnce, haltedCh, callerPc, waitPc, runPc, presencePc,
                    tickReady, listener, accepted >>
    /\ UNCHANGED << packetVars, runs, providerVars, clientVars >>

\* listenForIncomingConnections: continue, the loop calls Accept again
AcceptContinue ==
    /\ ~panicked
    /\ acceptPc = "continue"
    /\ acceptPc' = "accept"
    /\ UNCHANGED << lifecycleVars, listener, accepted >>
    /\ UNCHANGED << packetVars, runs, providerVars, clientVars >>

NextAccept ==
    \/ NextLifecycle
    \/ Accept
    \/ \E kind \in AcceptErrors : AcceptError(kind)
    \/ AcceptContinue

\* The accept goroutine is run like every other: a call of Accept on a
\* closed listener returns, and a continue is followed by the next pass.
FairAccept ==
    /\ FairLifecycle
    /\ WF_vars(\E kind \in AcceptErrors : AcceptError(kind))
    /\ WF_vars(AcceptContinue)

SpecAccept == Init /\ [][NextAccept]_vars /\ FairAccept

(***************************************************************************)
(* The client asks for a sequence of length mixes out of a list; a nil     *)
(* list has no elements, like an empty one.                                *)
(***************************************************************************)
GetRandomMixSequence(mixes, isNil, length) ==
    /\ isNil => Len(mixes) = 0
    /\ \E perm \in Perms(Len(mixes)) :
         \E r \in { getRandomMixSequence(mixes, length, perm) } :
           mixSeq' = [op |-> "getRandomMixSequence", mixes |-> mixes,
                      isNil |-> isNil, length |-> length,
                      err |-> r.err, sequence |-> r.sequence]
    /\ UNCHANGED << packetVars, runs, providerVars, lifecycleVars, acceptVars >>

NextClient ==
    \E mixes \in MixLists, isNil \in BOOLEAN, length \in 0..(MaxActive + 1) :
        GetRandomMixSequence(mixes, isNil, length)

SpecClient == Init /\ [][NextClient]_vars

(***************************************************************************)
(* Properties.  A packet is "honest" while no byte of it was changed in    *)
(* flight; it "comes from PackForwardMessage" when its node list has the   *)
(* ingress and the egress provider; its delays "fit" when there is one per *)
(* node.                                                                   *)
(***************************************************************************)
Honest == tamper = NoTamper

FromPackForwardMessage == Len(sent.nodes) >= 2

DelaysFit == Len(sent.delays) = Len(sent.nodes)

Hello == << 104, 101, 108, 108, 111 >>

\* node i (from 1) of the path with m mixes, read from the path itself
PathNode(m, i) ==
    IF i = 1 THEN E2EPath(m).IngressProvider
    ELSE IF i = m + 2 THEN E2EPath(m).EgressProvider
    ELSE E2EPath(m).Mixes[i - 1]

\* the payload and the header of the packet a node was handed
PayloadOf(bytes) == UnmarshalSphinxPacket(bytes).msg.Pld

HeaderOf(bytes) == UnmarshalSphinxPacket(bytes).msg.Hdr[1]

\* C1: a packet PackForwardMessage built for a valid path, a message and one
\* delay per node, handed to ProcessSphinxPacket at each node in path order
\* with that node's private key, makes every call succeed, and the payload
\* the last node is left with is the message.
C1_RoundTrip ==
    (FromPackForwardMessage /\ DelaysFit /\ Honest) =>
        /\ sent.err = NoErr
        /\ ret.err = NoErr
        /\ phase \in { "inflight", "delivered" }
        /\ hopIdx = Len(sent.nodes) =>
              (phase = "delivered" /\ WirePayload = sent.message)

C1_Witness ==
    /\ FromPackForwardMessage /\ DelaysFit /\ Honest
    /\ Len(sent.nodes) = 3
    /\ sent.message = Hello
    /\ phase = "delivered"
    /\ hopIdx = 3
    /\ WirePayload = Hello

\* C2: of a packet built for n nodes with delays d_0..d_(n-1), node i is handed
\* the flag Relay when i < n-1 and LastHop when i = n-1, with the delay d_i;
\* exactly one node, the last, sees LastHop.
C2_Commands ==
    (FromPackForwardMessage /\ DelaysFit /\ Honest) =>
        /\ Len(cmds) = hopIdx
        /\ \A i \in 1..Len(cmds) :
              /\ cmds[i].Delay = sent.delays[i]
              /\ cmds[i].Flag = IF i = Len(sent.nodes) THEN LastHopFlag
                                ELSE RelayFlag
        /\ hopIdx = Len(sent.nodes) =>
              /\ Cardinality({ i \in 1..Len(cmds) : cmds[i].Flag = LastHopFlag }) = 1
              /\ cmds[Len(cmds)].Flag = LastHopFlag

C2_Witness ==
    /\ FromPackForwardMessage /\ Honest
    /\ sent.delays = << 0, 1, 0 >>
    /\ Len(sent.nodes) = 3
    /\ hopIdx = 3
    /\ cmds = << [Delay |-> 0, Flag |-> RelayFlag],
                 [Delay |-> 1, Flag |-> RelayFlag],
                 [Delay |-> 0, Flag |-> LastHopFlag] >>

\* C3: the node list is the ingress provider, the mixes in order, the egress
\* provider; node i < n-1 is handed the id and the host:port of node i+1, and
\* the last node the id and the host:port of the recipient.
C3_NextHops ==
    (FromPackForwardMessage /\ DelaysFit /\ Honest) =>
        /\ Len(hops) = hopIdx
        /\ \A i \in 1..Len(hops) :
              IF i < Len(sent.nodes)
              THEN /\ hops[i].Id = PathNode(Len(sent.nodes) - 2, i + 1).Id
                   /\ hops[i].Address =
                        PathNode(Len(sent.nodes) - 2, i + 1).Host \o Colon
                          \o PathNode(Len(sent.nodes) - 2, i + 1).Port
              ELSE /\ hops[i].Id = Recipient.Id
                   /\ hops[i].Address = Recipient.Host \o Colon \o Recipient.Port

C3_Witness ==
    /\ FromPackForwardMessage /\ DelaysFit /\ Honest
    /\ Len(sent.nodes) = 3
    /\ Len(hops) = 3
    /\ hops[1].Id = MixConfig(1).Id
    /\ hops[2].Address = MixConfig(2).Host \o Colon \o MixConfig(2).Port
    /\ hops[3].Id = Recipient.Id

\* C4: when one bit of header.beta is flipped before the first node, the call
\* at that node fails with the MAC mismatch error and hands back no hop, no
\* commands and no packet.
C4_BetaTamper ==
    (tamper.field = "beta" /\ wireIn # << >>) =>
        /\ phase = "dropped"
        /\ hopIdx = 0
        /\ ret = PacketFailed(ErrMacMismatch)
        /\ hops = << >>
        /\ cmds = << >>

C4_Witness ==
    /\ tamper.field = "beta"
    /\ tamper.pos > 1
    /\ wireIn # << >>
    /\ ret.err = ErrMacMismatch
    /\ ret.packet = << >>

\* C5 as written: any change of one byte of header.alpha of a packet from
\* PackForwardMessage makes the call at the first node fail with the MAC
\* mismatch error.
C5_AnyAlphaByte ==
    (FromPackForwardMessage /\ tamper.field = "alpha" /\ wireIn # << >>) =>
        (phase = "dropped" /\ ret = PacketFailed(ErrMacMismatch))

\* the change the curve ignores: the top bit of the last byte of alpha
IgnoredBit == tamper.pos = PublicKeySize /\ tamper.mask = 128

\* C5: any change of one byte of header.alpha of a packet from
\* PackForwardMessage, other than of the top bit of
\* its last byte, makes the call at the first node fail with the MAC mismatch
\* error; a packet with only that bit changed is unwrapped as if unchanged.
C5_AlphaTamper ==
    (FromPackForwardMessage /\ tamper.field = "alpha" /\ wireIn # << >>) =>
        IF IgnoredBit
        THEN ret.err = NoErr /\ Len(hops) = hopIdx /\ hopIdx >= 1
        ELSE /\ phase = "dropped"
             /\ hopIdx = 0
             /\ ret = PacketFailed(ErrMacMismatch)

C5_Witness ==
    /\ FromPackForwardMessage
    /\ tamper.field = "alpha"
    /\ ~IgnoredBit
    /\ tamper.pos = PublicKeySize
    /\ wireIn # << >>
    /\ ret.err = ErrMacMismatch

\* C6 as written: the marshalled routing information of the header (beta) has
\* the same length, the fixed header length, whatever the number of nodes:
\* two packets a sender builds one after the other for paths of different
\* lengths carry betas of one length.
C6_HeaderLengthConstant ==
    (phase = "inflight" /\ prevBuilt.n # 0 /\ prevBuilt.n # Len(sent.nodes)) =>
        Len(WireHeader.Beta) = prevBuilt.betaLen

\* C7 as written: the beta a node is handed and the beta of the packet it
\* passes on have the same length.
C7_BetaLengthKept ==
    (hopIdx > 0 /\ ret.err = NoErr /\ FromPackForwardMessage) =>
        Len(HeaderOf(ret.packet).Beta) = Len(HeaderOf(wireIn).Beta)

C9_SingleHop ==
    (/\ sent.nodes = << MixConfig(0) >>
     /\ sent.delays = << 0 >>
     /\ sent.message = Hello
     /\ Honest
     /\ wireIn # << >>)
    => /\ ret.err = NoErr
       /\ ret.commands.Flag = LastHopFlag
       /\ PayloadOf(ret.packet) = Hello

\* C10 as written: PackForwardMessage called with fewer or with more delays
\* than nodes returns an error and builds no packet.
C10_BadArity ==
    (phase # "idle" /\ FromPackForwardMessage /\ ~DelaysFit) =>
        /\ phase = "failed"
        /\ sent.err # NoErr
        /\ ~IsPanic(sent.err)
        /\ wire = << >>

\* C12 as written: for every byte string that is no well-formed packet (bytes
\* that fail to unmarshal, a packet with no header, a MAC-valid beta whose
\* RoutingInfo lacks the next hop or the commands) ProcessSphinxPacket returns
\* an error and does not crash.
C12_MalformedIsError ==
    (phase = "raw" /\ wireIn \in MalformedInputs) =>
        (ret.err # NoErr /\ ~IsPanic(ret.err))

\* C13: whenever ProcessSphinxPacket returns an error it returns the zero Hop,
\* the zero Commands and no packet bytes, and it has not decrypted the
\* payload; on a MAC mismatch it has decrypted neither beta nor the payload.
C13_NoPlaintextOnError ==
    /\ ret.err # NoErr =>
          /\ ret.hop = ZeroHop
          /\ ret.commands = ZeroCommands
          /\ ret.packet = << >>
          /\ "payload" \notin ret.decrypted
    /\ ret.err = ErrMacMismatch => ret.decrypted = { }
    /\ (ret.err = NoErr /\ ret # NoRet) => ret.decrypted = { "beta", "payload" }

C13_Witness ==
    /\ FromPackForwardMessage
    /\ tamper.field = "alpha"
    /\ tamper.mask = 255
    /\ ret.err = ErrMacMismatch
    /\ ret.decrypted = { }
    /\ ret.packet = << >>

\* C14 as written: PackForwardMessage fails with an error and returns no
\* packet when a node of the path has a public key that is not of the key
\* size or that is the identity element, and ProcessSphinxPacket fails with
\* an error when the incoming alpha is the identity element.
C14_InvalidKey ==
    /\ tamper.field = "key" =>
          (phase = "failed" /\ sent.err # NoErr /\ ~IsPanic(sent.err)
             /\ wire = << >>)
    /\ (phase = "raw" /\ wireIn = IdentityAlphaPacket) =>
          (ret.err # NoErr /\ ~IsPanic(ret.err))

PulledBy == UnmarshalPullRequest(provRet.input).msg

\* the configuration in the provider's last call, when it was an assign request
AssignedTo == UnmarshalClientConfig(provRet.input).msg

\* C11 as written: when the command of a MAC-valid packet carries a flag that
\* is neither Relay nor LastHop, processing fails with an error, both in
\* ProcessSphinxPacket and in the provider's receivedPacket.
C11_UnknownFlagIsError ==
    (/\ provRet.op = "receivedPacket"
     /\ provRet.res.decrypted = { "beta", "payload" }
     /\ provRet.res.commands.Flag \notin { RelayFlag, LastHopFlag })
    => (provRet.res.err # NoErr /\ provRet.err # NoErr)

\* C16 as written: if processing returns an error, receivedPacket returns it
\* and nothing is forwarded or stored; if the flag is Relay the unwrapped
\* packet is sent, wrapped with the Comm flag, to the address of the next hop
\* (when it can be reached) and nothing is stored; if the flag is LastHop the
\* unwrapped data is stored in the inbox named by the id of the next hop and
\* nothing is forwarded.
C16_DispatchAsWritten ==
    provRet.op = "receivedPacket" =>
      /\ provRet.res.err # NoErr =>
            /\ provRet.err = provRet.res.err
            /\ provRet.sent = << >>
            /\ inboxes = provRet.fsBefore
      /\ (provRet.res.err = NoErr /\ provRet.res.commands.Flag = RelayFlag
             /\ provRet.dialOk) =>
            /\ provRet.sent = << [address |-> provRet.res.hop.Address,
                                  bytes |-> WrapWithFlag(CommFlag,
                                                         provRet.res.packet)] >>
            /\ inboxes = provRet.fsBefore
      /\ (provRet.res.err = NoErr /\ provRet.res.commands.Flag = LastHopFlag) =>
            /\ provRet.sent = << >>
            /\ provRet.res.hop.Id \in DOMAIN inboxes
            /\ Len(inboxes[provRet.res.hop.Id]) > 0
            /\ inboxes[provRet.res.hop.Id][Len(inboxes[provRet.res.hop.Id])]
                 = provRet.res.packet

\* C16: if processing returns an error, receivedPacket returns it and nothing
\* is forwarded or stored.  If the flag is Relay nothing is stored, and the
\* unwrapped packet is sent, wrapped with the Comm flag, to the address of the
\* next hop; when the next hop cannot be reached the error is returned.  If
\* the flag is LastHop nothing is forwarded, and the unwrapped data is added
\* to the inbox named by the id of the next hop when that inbox exists; when
\* it does not exist an error is returned and nothing is stored.
C16_Dispatch ==
    provRet.op = "receivedPacket" =>
      /\ provRet.res.err # NoErr =>
            /\ provRet.err = provRet.res.err
            /\ provRet.sent = << >>
            /\ inboxes = provRet.fsBefore
      /\ (provRet.res.err = NoErr /\ provRet.res.commands.Flag = RelayFlag) =>
            /\ inboxes = provRet.fsBefore
            /\ IF provRet.dialOk
               THEN /\ provRet.err = NoErr
                    /\ provRet.sent =
                         << [address |-> provRet.res.hop.Address,
                             bytes |-> WrapWithFlag(CommFlag, provRet.res.packet)] >>
               ELSE /\ provRet.err # NoErr
                    /\ provRet.sent = << >>
      /\ (provRet.res.err = NoErr /\ provRet.res.commands.Flag = LastHopFlag) =>
            /\ provRet.sent = << >>
            /\ IF provRet.res.hop.Id \in DOMAIN provRet.fsBefore
               THEN /\ provRet.err = NoErr
                    /\ inboxes =
                         [provRet.fsBefore EXCEPT ![provRet.res.hop.Id] =
                            Append(@, provRet.res.packet)]
               ELSE /\ provRet.err # NoErr
                    /\ inboxes = provRet.fsBefore

C16_Witness ==
    /\ provRet.op = "receivedPacket"
    /\ provRet.input = RelayPacket
    /\ provRet.err = NoErr
    /\ provRet.sent # << >>
    /\ provRet.sent[1].address = HostPort(MixConfig(1))
    /\ FileCount(inboxes, DOMAIN inboxes) = 1
    /\ inboxes = provRet.fsBefore

\* C17 as written: handlePullRequest reads and returns inbox messages only
\* when the pair of client public key and token of the request is the pair an
\* earlier registerNewClient recorded for that key; for every other request
\* it returns the error "authentication went wrong" and leaves the inboxes
\* as they were.
C17_PullAuthentication ==
    (/\ provRet.op = "handlePullRequest"
     /\ UnmarshalPullRequest(provRet.input).ok
     /\ ~(/\ Hex(PulledBy.ClientPublicKey) \in DOMAIN provRet.clientsBefore
          /\ provRet.clientsBefore[Hex(PulledBy.ClientPublicKey)].pubKey
               = PulledBy.ClientPublicKey
          /\ provRet.clientsBefore[Hex(PulledBy.ClientPublicKey)].token
               = PulledBy.Token))
    => /\ provRet.err = ErrAuthentication
       /\ provRet.out = << >>
       /\ inboxes = provRet.fsBefore

C20_Registration ==
    /\ \A i, j \in 1..Len(issued) : i # j => issued[i] # issued[j]
    /\ (provRet.op = "handleAssignRequest" /\ provRet.err = NoErr) =>
          /\ Hex(AssignedTo.PubKey) \in DOMAIN assignedClients
          /\ assignedClients[Hex(AssignedTo.PubKey)] =
               [id |-> Hex(AssignedTo.PubKey), host |-> AssignedTo.Host,
                port |-> AssignedTo.Port, pubKey |-> AssignedTo.PubKey,
                token |-> issued[Len(issued)]]
          /\ Hex(AssignedTo.PubKey) \in DOMAIN inboxes
          /\ provRet.out = << WrapWithFlag(TokenFlag, issued[Len(issued)]) >>
          /\ authenticateUser(assignedClients, AssignedTo.PubKey,
                              issued[Len(issued)])

\* a Shutdown call has begun
ShutdownBegun == haltOnce # "fresh"

LastKey ==
    IF phase = "raw" THEN PrivKey(0)
    ELSE IF ret.err = NoErr THEN PrivKeyOfNode(sent.nodes[hopIdx])
    ELSE PrivKeyOfNode(sent.nodes[hopIdx + 1])

\* the outcome of a call but for the payload: the error, the next hop, the
\* command and the outgoing header
Outcome(r) ==
    [err |-> r.err, hop |-> r.hop, commands |-> r.commands,
     header |-> IF r.err = NoErr THEN UnmarshalSphinxPacket(r.packet).msg.Hdr
                ELSE << >>]

\* C30: the outcome of ProcessSphinxPacket does not depend on the payload:
\* the packet a node was handed and the same packet with any other payload,
\* processed with the same private key, give the same error or the same next
\* hop, command and outgoing header; and a packet from PackForwardMessage
\* whose payload was changed in transit is rejected by no node: every node
\* of the path unwraps it without error, the last node included.
C30_PayloadIndependent ==
    /\ (ret # NoRet /\ UnmarshalSphinxPacket(wireIn).ok) =>
          \A pld \in AltPayloads(PayloadOf(wireIn)) :
              Outcome(ProcessSphinxPacket(WithPayload(wireIn, pld), LastKey))
                = Outcome(ret)
    /\ (tamper.field = "payload" /\ FromPackForwardMessage /\ DelaysFit) =>
          /\ phase \in { "inflight", "delivered" }
          /\ hopIdx > tamper.pos => ret.err = NoErr
          /\ Len(hops) = hopIdx
          /\ phase = "delivered" <=> hopIdx = Len(sent.nodes)

\* a packet whose payload was changed at the second of three nodes went all
\* the way, and the last node was left with something else than the message
C30_Witness ==
    /\ tamper.field = "payload"
    /\ tamper.pos = 1
    /\ Len(sent.nodes) = 3
    /\ sent.message = Hello
    /\ phase = "delivered"
    /\ hopIdx = 3
    /\ ret.err = NoErr
    /\ WirePayload # Hello

\* C29 as written: after Shutdown on a running server run returns and closes
\* the listener, and the accept loop comes to an end without reaching the
\* "Critical accept failure" panic and without accepting a connection once
\* the listener is closed.
C29_CleanShutdown ==
    /\ [](acceptPc # "panic")
    /\ (ShutdownBegun /\ runPc = "waiting")
          ~> (runPc = "returned" /\ listener = "closed")
    /\ (ShutdownBegun /\ acceptPc = "accept") ~> (acceptPc = "stopped")
    /\ [][listener = "closed" => accepted' = accepted]_vars

C21_MissingInbox ==
    (/\ provRet.op = "receivedPacket"
     /\ provRet.res.err = NoErr
     /\ provRet.res.commands.Flag = LastHopFlag
     /\ provRet.res.hop.Id \notin DOMAIN provRet.clientsBefore)
    => (provRet.err # NoErr /\ inboxes = provRet.fsBefore)

\* the mixes of a list
MixesOf(l) == { l[i] : i \in 1..Len(l) }

\* C22: getRandomMixSequence(mixes, k) returns exactly k mixes of the list
\* when k <= len(mixes), all mixes of the list when k > len(mixes), and the
\* error "cannot take a mix sequence from an empty list" when the list is
\* empty or nil.
C22_MixSequence ==
    mixSeq.op = "getRandomMixSequence" =>
      IF Len(mixSeq.mixes) = 0
      THEN mixSeq.err = ErrEmptyMixList
      ELSE /\ mixSeq.err = NoErr
           /\ MixesOf(mixSeq.sequence) \subseteq MixesOf(mixSeq.mixes)
           /\ IF mixSeq.length <= Len(mixSeq.mixes)
              THEN Len(mixSeq.sequence) = mixSeq.length
              ELSE /\ Len(mixSeq.sequence) = Len(mixSeq.mixes)
                   /\ MixesOf(mixSeq.sequence) = MixesOf(mixSeq.mixes)

C22_Witness ==
    /\ mixSeq.op = "getRandomMixSequence"
    /\ Len(mixSeq.mixes) = 2
    /\ mixSeq.length = 3
    /\ mixSeq.err = NoErr
    /\ Len(mixSeq.sequence) = 2

\* the tuples the sender of the packet in flight computed, one per node
SenderTuples == getSharedSecrets(sent.nodes, sent.x).tuples

\* the alpha of the packet the last node was handed, the secret that node
\* shares with it, and the blinder the node derives
AlphaIn == BytesToFieldElement(HeaderOf(wireIn).Alpha)

RelaySecret == ScalarMult(PrivKeyOfNode(sent.nodes[hopIdx]), AlphaIn)

RelayBlinder == computeBlindingFactor(KDF(RelaySecret))

\* a node has unwrapped the packet of a sender that gave a valid path and one
\* delay per node, and nobody changed the packet
HopDone ==
    /\ FromPackForwardMessage /\ DelaysFit /\ Honest
    /\ sent.err = NoErr
    /\ hopIdx >= 1

\* C23: at every hop i the alpha the node receives is the sender's alpha_i,
\* the secret the node computes as its private key times that alpha is the
\* sender's s_i, the blinder it derives is the sender's b_i, and the alpha it
\* writes into the outgoing header is that blinder times the incoming alpha,
\* which is the sender's alpha_(i+1).
C23_KeyAgreement ==
    HopDone =>
        /\ ret.err = NoErr
        /\ Len(SenderTuples) = Len(sent.nodes)
        /\ HeaderOf(wireIn).Alpha = SenderTuples[hopIdx].Alpha
        /\ RelaySecret = SenderTuples[hopIdx].Secret
        /\ RelayBlinder = SenderTuples[hopIdx].Blinder
        /\ HeaderOf(wire).Alpha = ScalarMult(RelayBlinder, AlphaIn)
        /\ hopIdx < Len(sent.nodes) =>
              HeaderOf(wire).Alpha = SenderTuples[hopIdx + 1].Alpha

C23_Witness ==
    /\ HopDone
    /\ Len(sent.nodes) = 3
    /\ hopIdx = 2
    /\ ret.err = NoErr
    /\ HeaderOf(wire).Alpha = SenderTuples[3].Alpha
    /\ HeaderOf(wire).Alpha # HeaderOf(wireIn).Alpha
    /\ SenderTuples[1].Secret # SenderTuples[2].Secret

\* Routing layer i of the packet in flight as the sender means it: the record
\* of node i encrypted under the key of node i, and the MAC of that under the
\* same key; the record of the last node names the recipient, the record of
\* any other node names node i+1 and carries layer i+1 and its MAC.
RECURSIVE Layer(_)
Layer(i) ==
    LET n == Len(sent.nodes)
        key == KDF(SenderTuples[i].SecretHash)
        command == CommandOf(sent.delays, i, n)
        record ==
          IF i = n
          THEN [NextHop |-> << [Id |-> sent.dest.Id,
                                Address |-> HostPort(sent.dest),
                                PubKey |-> << >>] >>,
                RoutingCommands |-> << command >>,
                NextHopMetaData |-> << >>,
                Mac |-> << >>]
          ELSE [NextHop |-> << [Id |-> sent.nodes[i + 1].Id,
                                Address |-> HostPort(sent.nodes[i + 1]),
                                PubKey |-> sent.nodes[i + 1].PubKey] >>,
                RoutingCommands |-> << command >>,
                NextHopMetaData |-> Layer(i + 1).enc,
                Mac |-> Layer(i + 1).mac]
        enc == AesCtr(key, MarshalRoutingInfo(record))
    IN [enc |-> enc, mac |-> computeMac(key, enc)]

\* a header was built and nobody has touched it yet
FreshHeader ==
    /\ phase = "inflight"
    /\ hopIdx = 0
    /\ Honest
    /\ DelaysFit
    /\ sent.err = NoErr

\* C24 as written: for every path length the header the sender built holds
\* the outermost layer: alpha is alpha_0, beta is E_0, the record of the first
\* node encrypted under its key with the later layers nested in it, and mac is
\* the MAC of E_0 under that key.
C24_OutermostLayer ==
    FreshHeader =>
        /\ WireHeader.Alpha = SenderTuples[1].Alpha
        /\ WireHeader.Beta = Layer(1).enc
        /\ WireHeader.Mac = Layer(1).mac

\* the key the node that unwrapped last uses: KDF(KDF(s))
RelayKey == KDF(KDF(RelaySecret))

\* the payload as the sender means it to reach node i: the message under the
\* keys of the nodes i, i+1, ..., each layer added under KDF(KDF(s_j))
RECURSIVE PayloadLayer(_)
PayloadLayer(i) ==
    IF i > Len(sent.nodes) THEN sent.message
    ELSE AesCtr(KDF(SenderTuples[i].SecretHash), PayloadLayer(i + 1))

\* C25: for every hop i the sender encrypts routing layer i, computes mac_i
\* and adds payload layer i under KDF(KDF(s_i)), and this is the key
\* KDF(KDF(s)) under which the node verifies the MAC, decrypts beta and
\* decrypts the payload; the blinder is derived from KDF(s) on both sides.
C25_SameKey ==
    HopDone =>
        /\ ret.err = NoErr
        /\ SenderTuples[hopIdx].SecretHash = KDF(SenderTuples[hopIdx].Secret)
        /\ RelayKey = KDF(SenderTuples[hopIdx].SecretHash)
        /\ HeaderOf(wireIn).Beta = Layer(hopIdx).enc
        /\ HeaderOf(wireIn).Mac = Layer(hopIdx).mac
        /\ PayloadOf(wireIn) = PayloadLayer(hopIdx)
        /\ computeMac(RelayKey, HeaderOf(wireIn).Beta) = HeaderOf(wireIn).Mac
        /\ UnmarshalRoutingInfo(AesCtr(RelayKey, HeaderOf(wireIn).Beta)).ok
        /\ UnmarshalRoutingInfo(AesCtr(RelayKey, HeaderOf(wireIn).Beta)).msg
              .NextHop = << ret.hop >>
        /\ PayloadOf(wire) = AesCtr(RelayKey, PayloadOf(wireIn))
        /\ PayloadOf(wire) = PayloadLayer(hopIdx + 1)
        /\ SenderTuples[hopIdx].Blinder
              = computeBlindingFactor(SenderTuples[hopIdx].SecretHash)
        /\ HeaderOf(wire).Alpha
              = ScalarMult(computeBlindingFactor(KDF(RelaySecret)), AlphaIn)

C25_Witness ==
    /\ HopDone
    /\ Len(sent.nodes) = 3
    /\ hopIdx = 3
    /\ ret.err = NoErr
    /\ sent.message = Hello
    /\ PayloadOf(wireIn) = AesCtr(RelayKey, Hello)
    /\ PayloadOf(wire) = Hello
    /\ RelayKey # KDF(RelaySecret)

\* a tuple with every field filled in
Populated(t) ==
    /\ Len(t.Alpha) = PublicKeySize
    /\ Len(t.Secret) = PublicKeySize
    /\ Len(t.Blinder) = PublicKeySize
    /\ Len(t.SecretHash) > 0

\* C26: a successful getSharedSecrets returns exactly one fully populated
\* tuple per node, in path order (tuple i holds the secret of node i); a
\* failed one returns no tuple; createHeader passes the error of a failed
\* getSharedSecrets on and never raises its count-mismatch error.
C26_SecretCount ==
    /\ \A r \in 1..Len(runs) :
          IF runs[r].result.err = NoErr
          THEN /\ Len(runs[r].result.tuples) = Len(runs[r].nodes)
               /\ \A k \in 1..Len(runs[r].nodes) :
                     /\ Populated(runs[r].result.tuples[k])
                     /\ Len(runs[r].nodes[k].PubKey) = PublicKeySize
                     /\ runs[r].result.tuples[k].Secret =
                          expo(BytesToPublicKey(runs[r].nodes[k].PubKey),
                               << runs[r].x >> \o
                               [j \in 1..(k - 1) |->
                                  runs[r].result.tuples[j].Blinder])
          ELSE /\ runs[r].result.tuples = << >>
               /\ \E k \in 1..Len(runs[r].nodes) :
                     Len(runs[r].nodes[k].PubKey) # PublicKeySize
    /\ sent.err # ErrSecretCount
    /\ (phase \in { "inflight", "failed" }
          /\ getSharedSecrets(sent.nodes, sent.x).err # NoErr)
         => sent.err = getSharedSecrets(sent.nodes, sent.x).err

C26_Witness ==
    /\ Len(runs) = 2
    /\ runs[1].result.err = ErrInvalidPubKey
    /\ runs[1].result.tuples = << >>
    /\ runs[2].result.err = NoErr
    /\ Len(runs[2].result.tuples) = 3

\* a library call of encapsulateHeader failed during the build
Faulted == tamper.field \in { "Marshal", "KDF", "AesCtr", "KDF2", "computeMac" }

\* C27 as written: when a KDF, AES-CTR, MAC or marshal step of
\* encapsulateHeader fails the build returns an error, and a build of
\* PackForwardMessage that returns no error comes with a header whose alpha,
\* beta and mac are not empty.
C27_ErrorOrHeader ==
    /\ Faulted => (sent.err # NoErr /\ phase = "failed")
    /\ (FromPackForwardMessage /\ sent.err = NoErr /\ phase = "inflight"
          /\ hopIdx = 0 /\ tamper.field \notin { "alpha", "beta" }) =>
            /\ Len(WireHeader.Alpha) > 0
            /\ Len(WireHeader.Beta) > 0
            /\ Len(WireHeader.Mac) > 0

====
